---- MODULE Spec2Model ----
(***************************************************************************)
(* dirgo: the bounded LRU scan cache (lruCache) and its disk persistence   *)
(* (SaveToDisk / LoadFromDisk), and the directory scanner (scanDirectory   *)
(* with its worker pools, dirSizeRecursive, SortBySize).                   *)
(*                                                                         *)
(* Time is the wall clock, counted in days (24 hours); it never runs       *)
(* backwards.                                                              *)
(***************************************************************************)
EXTENDS Integers, Sequences, FiniteSets, TLC

(* ------------------------------ bounds -------------------------------- *)

\* capacities newLRUCache is called with: 1..MaxCap
MaxCap == 2

\* how many scan results the large cache is filled with: 0..MaxFill
MaxFill == 52

\* absolute paths used as cache keys
Keys == {"/a", "/b", "/c"}

(* ------------------------- program constants -------------------------- *)

cacheVersion == 1

\* 24 * time.Hour, in days
cacheMaxAge == 1

diskCacheMax == 50

\* newLRUCache(100) in NewModel
modelCacheEntries == 100

\* the clock is followed until every record written at day 0 is stale
MaxTime == cacheMaxAge + 1

(* ------------------------------ values -------------------------------- *)

\* time.Time: the wall-clock instant and whether a monotonic reading is attached
Time(w, m) == [wall |-> w, mono |-> m]

ZeroTime == Time(0, FALSE)

\* FileEntry, all twelve fields
FileEntry(name, size, isDir, modTime) ==
    [Name |-> name, Size |-> size, IsDir |-> isDir, IsHidden |-> FALSE,
     IsBinary |-> FALSE, IsSymlink |-> FALSE, LineCount |-> 0,
     Percentage |-> 100, ChildFiles |-> 0, ChildDirs |-> 0,
     ModTime |-> modTime, SizeComputing |-> FALSE]

\* scanResultMsg
scanResultMsg(path, entries, totalSize, totalFiles, totalDirs, dirModTime) ==
    [path |-> path, entries |-> entries, totalSize |-> totalSize,
     totalFiles |-> totalFiles, totalDirs |-> totalDirs,
     dirModTime |-> dirModTime]

\* scanResultMsg{} : what Get returns on a miss
ZeroResult == scanResultMsg("", <<>>, 0, 0, 0, ZeroTime)

\* the scan results callers store under key k; every caller passes a value
\* whose path field is the key (m.cache.Put(msg.path, msg)).  "/a" is scanned
\* with two different outcomes, the other paths with one.
ResultsFor(k) ==
    { scanResultMsg(k, <<FileEntry("file.go", 1024, FALSE, Time(2, FALSE))>>,
                    1024, 42, 0, Time(3, TRUE)) }
    \cup (IF k = "/a" THEN { scanResultMsg(k, <<>>, 0, 0, 0, ZeroTime) } ELSE {})

(* --------------------------- container/list --------------------------- *)

\* position of the element holding key k in list l (what c.items[key] points
\* at), 0 when no element of l holds k
IndexOf(l, k) ==
    IF \E i \in 1..Len(l) : l[i].key = k
    THEN CHOOSE i \in 1..Len(l) : l[i].key = k /\ \A j \in 1..(i - 1) : l[j].key # k
    ELSE 0

\* l.Remove(el), el the element at position i; an element that is not in l
\* (position 0) is left alone
RemoveAt(l, i) ==
    IF i = 0 THEN l ELSE SubSeq(l, 1, i - 1) \o SubSeq(l, i + 1, Len(l))

\* (C3 mutant) the accessed element stays where it is
MoveToFront_Stays(l, i) == l

\* l.MoveToFront(el), el the element at position i; no-op for an element that
\* is not in l
MoveToFront(l, i) == IF i = 0 THEN l ELSE <<l[i]>> \o RemoveAt(l, i)

\* l.PushFront(v)
PushFront(l, v) == <<v>> \o l

KeysOf(l) == { l[i].key : i \in 1..Len(l) }

(* ------------------------------ state --------------------------------- *)

VARIABLES
    maxEntries,   \* lruCache.maxEntries
    ll,           \* lruCache.ll: sequence of cacheItem, front first
    items,        \* lruCache.items: the keys of the map (each maps to its element in ll)
    disk,         \* the cache file
    now,          \* the wall clock
    op,           \* the last step: the operation called, its key argument and
                  \* how the call found things, or "env" for a step of the
                  \* environment
    ret,          \* what the last operation returned
    touched,      \* history: keys in order of last Get hit or Put, latest first
    lastPut       \* history: for each cached key the value of its latest Put

vars == <<maxEntries, ll, items, disk, now, op, ret, touched, lastPut>>

\* one run of the command scanDirectory(path) returns
VARIABLES
    fs,               \* what the file system holds at path; it does not change during the scan
    numCPU,           \* runtime.NumCPU()
    pc,               \* where the goroutine of the command is
    entries,          \* its local entries
    fileEntries,      \* its local fileEntries
    dirEntryIndices,  \* its local dirEntryIndices
    totalSize, totalFiles, totalDirs,
    results,          \* the results slice of the directory block
    wpc,              \* where each spawned subdirectory goroutine is
    sem,              \* number of elements in the channel sem of the directory block
    wg,               \* counter of the WaitGroup of the directory block
    fw,               \* the file-stat goroutines, by number at each position
    fwg,              \* counter of the WaitGroup of the file block
    msgs              \* the messages the command has returned

scanVars == <<fs, numCPU, pc, entries, fileEntries, dirEntryIndices, totalSize,
              totalFiles, totalDirs, results, wpc, sem, wg, fw, fwg, msgs>>

\* no directory on any level of the scanned tree: os.ReadDir fails
NoDir == [ok |-> FALSE, list |-> <<>>]

NoWorkers == [start |-> 0, holding |-> 0, computed |-> 0, released |-> 0, done |-> 0]

\* no scan was asked for
NoScan ==
    /\ fs = [path |-> "", abs |-> FALSE, stat |-> FALSE, isDir |-> FALSE,
             modTime |-> ZeroTime, dir |-> NoDir]
    /\ numCPU = 1
    /\ pc = "idle"
    /\ entries = <<>> /\ fileEntries = <<>> /\ dirEntryIndices = <<>>
    /\ totalSize = 0 /\ totalFiles = 0 /\ totalDirs = 0
    /\ results = <<>> /\ wpc = <<>> /\ sem = 0 /\ wg = 0
    /\ fw = NoWorkers /\ fwg = 0
    /\ msgs = <<>>

\* one run of the command smartRefreshCmd(path, cached) returns
VARIABLES
    cachedModTime     \* cached.dirModTime

refreshVars == <<cachedModTime>>

\* no refresh was asked for
NoRefresh == cachedModTime = ZeroTime

\* one call of countLines(path, maxSize)
VARIABLES
    lfile,            \* what the file system holds at path
    maxSize,          \* the argument maxSize
    lpc,              \* where the call is
    opened,           \* os.Open was called and returned a file
    chunks,           \* the n > 0 of the calls of f.Read so far
    rerr,             \* the err of the last f.Read
    count,            \* the local count
    totalRead,        \* the local totalRead
    lret              \* what the call returned: lines, isBinary, error

lineVars == <<lfile, maxSize, lpc, opened, chunks, rerr, count, totalRead, lret>>

\* os.Stat(path) fails
NoSuchFile == [stat |-> FALSE, isDir |-> FALSE, open |-> FALSE, data |-> <<>>]

\* countLines is not called
NoLines ==
    /\ lfile = NoSuchFile /\ maxSize = 0 /\ lpc = "idle"
    /\ opened = FALSE /\ chunks = <<>> /\ rerr = "nil"
    /\ count = 0 /\ totalRead = 0 /\ lret = <<>>

\* one run of the command countAllLinesCmd(entries, dir) returns
VARIABLES
    bentries,         \* the argument entries, each with what countLines finds at its path
    bpc,              \* where the goroutine of the command is
    bi,               \* the number of rounds of its loop over entries
    bw,               \* where the goroutine started for each entry is
    bsem,             \* number of elements in the channel sem
    bwg,              \* counter of the WaitGroup
    mu,               \* the goroutines that hold the mutex
    counts,           \* the map counts
    bmsgs             \* the messages the command has returned

batchVars == <<bentries, bpc, bi, bw, bsem, bwg, mu, counts, bmsgs>>

\* make(map[string]int)
EmptyMap == [n \in {} |-> 0]

\* countAllLinesCmd is not run
NoBatch ==
    /\ bentries = <<>> /\ bpc = "idle" /\ bi = 0 /\ bw = <<>>
    /\ bsem = 0 /\ bwg = 0 /\ mu = {} /\ counts = EmptyMap /\ bmsgs = <<>>

\* the Model of the program, the commands it has started and the
\* ScanProgress objects it has made
VARIABLES
    mpath,               \* Model.path
    mentries,            \* Model.entries
    mfiltered,           \* Model.filtered
    mtotalSize, mtotalFiles, mtotalDirs,
    deepTotalFiles, deepTotalDirs,
    mcursor,             \* Model.cursor
    scanProg,            \* Model.scanProg: the number of a ScanProgress, 0 for nil
    scanProgShown,       \* Model.scanProgFiles, scanProgDirs, scanProgSize
    cursorHistory,       \* Model.cursorHistory
    pendingCursorEntry,  \* Model.pendingCursorEntry
    mloading,            \* Model.loading
    fromCache,           \* Model.fromCache
    merr,                \* Model.err
    progs,               \* the ScanProgress objects made so far, by number
    added,               \* what the scanners added to each ScanProgress, counted apart
    entriesOf,           \* the directory whose cached value shares its array with m.entries
    cmds,                \* the commands that run
    viewFilter,          \* Model.viewFilter: 0 all, 1 directories only, 2 files only
    gone                 \* the entries moved to the trash, as <<directory, name>>

uiVars == <<mpath, mentries, mfiltered, mtotalSize, mtotalFiles, mtotalDirs,
            deepTotalFiles, deepTotalDirs, mcursor, scanProg, scanProgShown,
            cursorHistory, pendingCursorEntry, mloading, fromCache, merr,
            progs, added, entriesOf, cmds, viewFilter, gone>>

\* &ScanProgress{}
ZeroProg == [Files |-> 0, Dirs |-> 0, Size |-> 0]

\* no Model is made
NoUI ==
    /\ mpath = "" /\ mentries = <<>> /\ mfiltered = <<>>
    /\ mtotalSize = 0 /\ mtotalFiles = 0 /\ mtotalDirs = 0
    /\ deepTotalFiles = 0 /\ deepTotalDirs = 0
    /\ mcursor = 0 /\ scanProg = 0 /\ scanProgShown = ZeroProg
    /\ cursorHistory = EmptyMap /\ pendingCursorEntry = ""
    /\ mloading = FALSE /\ fromCache = FALSE /\ merr = "nil"
    /\ progs = <<>> /\ added = <<>> /\ entriesOf = ""
    /\ cmds = {} /\ viewFilter = 0 /\ gone = {}

\* one call of fuzzyMatch(name, pattern)
VARIABLES
    fname,       \* the argument name, a sequence of bytes
    fpattern,    \* the argument pattern, a sequence of bytes
    fret         \* what the call returned, as a tuple; empty before it returns

matchVars == <<fname, fpattern, fret>>

\* no call of fuzzyMatch is followed
NoMatch == fname = <<>> /\ fpattern = <<>> /\ fret = <<>>

otherVars == <<refreshVars, lineVars, batchVars, uiVars, matchVars>>

\* nothing but the cache, or the scan, is followed
NoOther == NoRefresh /\ NoLines /\ NoBatch /\ NoUI /\ NoMatch

cacheItem(k, v) == [key |-> k, value |-> v]

\* Get returns (value, ok); SaveToDisk and LoadFromDisk return err
Ret(v, ok, err) == [value |-> v, ok |-> ok, err |-> err]

NoRet == Ret(ZeroResult, FALSE, "nil")

Op(name, k, how) == [name |-> name, key |-> k, how |-> how]

NoFile(kind) == [kind |-> kind, Version |-> 0, Items |-> <<>>]

\* newLRUCache(maxEntries); no cache file exists yet
Init ==
    /\ maxEntries \in 1..MaxCap
    /\ ll = <<>>
    /\ items = {}
    /\ disk = NoFile("absent")
    /\ now = 0
    /\ op = Op("new", "", "")
    /\ ret = NoRet
    /\ touched = <<>>
    /\ lastPut = <<>>
    /\ NoScan
    /\ NoOther

(* ------------------------- cache operations --------------------------- *)

\* the cache proper, as the operations below pass it around
Cache(l, its) == [ll |-> l, items |-> its]

\* (C1 mutant) the element at the front is evicted instead of the one at the back
evictOldest_Front(c) ==
    IF c.ll = <<>> THEN c
    ELSE Cache(RemoveAt(c.ll, 1), c.items \ {c.ll[1].key})

\* lruCache.evictOldest
evictOldest(c) ==
    IF c.ll = <<>> THEN c
    ELSE Cache(RemoveAt(c.ll, Len(c.ll)), c.items \ {c.ll[Len(c.ll)].key})

\* (C2 mutant) the capacity test is off by one
PutC_OffByOne(c, max, key, val) ==
    IF key \in c.items
    THEN LET i == IndexOf(c.ll, key)
             moved == MoveToFront(c.ll, i)
         IN  Cache(IF i = 0 THEN moved ELSE [moved EXCEPT ![1].value = val], c.items)
    ELSE LET pushed == Cache(PushFront(c.ll, cacheItem(key, val)), c.items \cup {key})
         IN  IF Len(pushed.ll) > max + 1 THEN evictOldest(pushed) ELSE pushed

\* (C4 mutant) a Put on a present key moves it but keeps the old value
PutC_KeepsValue(c, max, key, val) ==
    IF key \in c.items
    THEN Cache(MoveToFront(c.ll, IndexOf(c.ll, key)), c.items)
    ELSE LET pushed == Cache(PushFront(c.ll, cacheItem(key, val)), c.items \cup {key})
         IN  IF Len(pushed.ll) > max THEN evictOldest(pushed) ELSE pushed

\* lruCache.Put on cache c of capacity max
PutC(c, max, key, val) ==
    IF key \in c.items
    THEN LET i == IndexOf(c.ll, key)
             moved == MoveToFront(c.ll, i)
         IN  Cache(IF i = 0 THEN moved ELSE [moved EXCEPT ![1].value = val], c.items)
    ELSE LET pushed == Cache(PushFront(c.ll, cacheItem(key, val)), c.items \cup {key})
         IN  IF Len(pushed.ll) > max THEN evictOldest(pushed) ELSE pushed

\* (C6 mutant) the key leaves the map but its element stays in the list
DeleteC_MapOnly(c, key) ==
    IF key \in c.items THEN Cache(c.ll, c.items \ {key}) ELSE c

\* lruCache.Delete
DeleteC(c, key) ==
    IF key \in c.items
    THEN Cache(RemoveAt(c.ll, IndexOf(c.ll, key)), c.items \ {key})
    ELSE c

\* history update for a Get hit or a Put of key k
Touch(t, k) == <<k>> \o SelectSeq(t, LAMBDA x : x # k)

\* the histories follow only the keys that are still cached: a key that was
\* deleted or evicted (it left the map) is forgotten
Forget(t, present) == SelectSeq(t, LAMBDA x : x \in present)

ForgetPut(lp, present) == [k \in present \cap DOMAIN lp |-> lp[k]]

\* history update for a Put of value val under key k
Record(lp, k, val) == [x \in DOMAIN lp \cup {k} |-> IF x = k THEN val ELSE lp[x]]

\* newLRUCache(n): a new, empty cache object replaces the old one
NewCache(n) ==
    /\ maxEntries' = n
    /\ ll' = <<>>
    /\ items' = {}
    /\ op' = Op("new", "", "")
    /\ ret' = NoRet
    /\ touched' = <<>>
    /\ lastPut' = <<>>
    /\ UNCHANGED <<disk, now, scanVars, otherVars>>

\* (C5 mutant) a hit returns the value at the front of the list
Get_FrontValue(key) ==
    /\ op' = Op("Get", key, IF key \in items THEN "hit" ELSE "miss")
    /\ IF key \in items
       THEN /\ ll' = MoveToFront(ll, IndexOf(ll, key))
            /\ ret' = Ret(ll[1].value, TRUE, "nil")
            /\ touched' = Touch(touched, key)
       ELSE /\ ret' = Ret(ZeroResult, FALSE, "nil")
            /\ UNCHANGED <<ll, touched>>
    /\ UNCHANGED <<maxEntries, items, disk, now, lastPut, scanVars, otherVars>>

\* lruCache.Get
Get(key) ==
    /\ op' = Op("Get", key, IF key \in items THEN "hit" ELSE "miss")
    /\ IF key \in items
       THEN /\ ll' = MoveToFront(ll, IndexOf(ll, key))
            /\ ret' = Ret(ll[IndexOf(ll, key)].value, TRUE, "nil")
            /\ touched' = Touch(touched, key)
       ELSE /\ ret' = Ret(ZeroResult, FALSE, "nil")
            /\ UNCHANGED <<ll, touched>>
    /\ UNCHANGED <<maxEntries, items, disk, now, lastPut, scanVars, otherVars>>

\* lruCache.Put
Put(key, val) ==
    /\ op' = Op("Put", key, IF key \in items THEN "hit"
                             ELSE IF Len(ll) >= maxEntries THEN "full" ELSE "new")
    /\ LET c == PutC(Cache(ll, items), maxEntries, key, val)
       IN  ll' = c.ll /\ items' = c.items
    /\ ret' = NoRet
    /\ touched' = Forget(Touch(touched, key), items')
    /\ lastPut' = ForgetPut(Record(lastPut, key, val), items')
    /\ UNCHANGED <<maxEntries, disk, now, scanVars, otherVars>>

\* lruCache.Delete
Delete(key) ==
    /\ op' = Op("Delete", key, IF key \in items THEN "hit" ELSE "miss")
    /\ LET c == DeleteC(Cache(ll, items), key)
       IN  ll' = c.ll /\ items' = c.items
    /\ ret' = NoRet
    /\ touched' = Forget(touched, items')
    /\ lastPut' = ForgetPut(lastPut, items')
    /\ UNCHANGED <<maxEntries, disk, now, scanVars, otherVars>>

\* lruCache.Len
LenC == Len(ll)

(* --------------------------- disk persistence ------------------------- *)

\* serializedEntry
serializedEntry(path, ents, size, files, dirs, dirModTime, cachedAt) ==
    [Path |-> path, Entries |-> ents, TotalSize |-> size,
     TotalFiles |-> files, TotalDirs |-> dirs,
     DirModTime |-> dirModTime, CachedAt |-> cachedAt]

\* serializedCache
serializedCache(version, its) == [Version |-> version, Items |-> its]

\* gob writes a time.Time through its binary marshalling, which keeps the wall
\* instant and drops the monotonic reading
GobTime(t) == Time(t.wall, FALSE)

GobEntries(es) == [i \in 1..Len(es) |-> [es[i] EXCEPT !.ModTime = GobTime(@)]]

\* gob.NewEncoder(f).Encode(sc): the file contents
GobEncode(sc) ==
    [kind |-> "file",
     Version |-> sc.Version,
     Items |-> [i \in 1..Len(sc.Items) |->
                  [sc.Items[i] EXCEPT !.Entries = GobEntries(@),
                                      !.DirModTime = GobTime(@),
                                      !.CachedAt = GobTime(@)]]]

\* gob.NewDecoder(f).Decode(&sc): fails on anything but a well-formed stream
GobDecode(file) ==
    IF file.kind = "file"
    THEN [ok |-> TRUE, sc |-> serializedCache(file.Version, file.Items)]
    ELSE [ok |-> FALSE, sc |-> serializedCache(0, <<>>)]

\* t.Sub(u); u has no monotonic reading once decoded, so the wall clocks are compared
Sub(t, u) == t.wall - u.wall

Min(a, b) == IF a < b THEN a ELSE b

\* (C40 mutant) a record is stamped with the modification time its scan found
SaveItems_StampsModTime(l, stamps) ==
    [i \in 1..Min(Len(l), diskCacheMax) |->
        serializedEntry(l[i].value.path, l[i].value.entries, l[i].value.totalSize,
                        l[i].value.totalFiles, l[i].value.totalDirs,
                        l[i].value.dirModTime, Time(l[i].value.dirModTime.wall, TRUE))]

\* (C8 mutant) the loop takes the elements at the back of the list
SaveItems_FromBack(l, stamps) ==
    LET n == Min(Len(l), diskCacheMax)
        e(i) == l[Len(l) - n + i]
    IN  [i \in 1..n |->
            serializedEntry(e(i).value.path, e(i).value.entries, e(i).value.totalSize,
                            e(i).value.totalFiles, e(i).value.totalDirs,
                            e(i).value.dirModTime, Time(stamps[i], TRUE))]

\* the loop of SaveToDisk over list l: the first diskCacheMax elements from the
\* front, element i stamped with the clock reading stamps[i]
SaveItems(l, stamps) ==
    [i \in 1..Min(Len(l), diskCacheMax) |->
        serializedEntry(l[i].value.path, l[i].value.entries, l[i].value.totalSize,
                        l[i].value.totalFiles, l[i].value.totalDirs,
                        l[i].value.dirModTime, Time(stamps[i], TRUE))]

\* the clock readings of one SaveToDisk loop over n elements, started at time
\* t: the clock moves on by one day after the j-th reading (never, if j = n)
Stamps(n, t, j) == [i \in 1..n |-> IF i <= j THEN t ELSE t + 1]

\* SaveToDisk.  outcome: "nohome" (no home directory: nothing is written, no
\* error), "fail" (MkdirAll or os.Create fails: the error is returned, the
\* file is left as it was), "ok"
SaveToDisk(outcome, j) ==
    LET n == Min(Len(ll), diskCacheMax)
        stamps == Stamps(n, now, j)
    IN  /\ op' = Op("Save", "", outcome)
        /\ IF outcome = "ok" /\ n > 0 THEN j \in 1..n ELSE j = 0
        /\ now' = IF outcome = "ok" /\ n > 0 THEN stamps[n] ELSE now
        /\ now' <= MaxTime
        /\ disk' = IF outcome = "ok"
                   THEN GobEncode(serializedCache(cacheVersion, SaveItems(ll, stamps)))
                   ELSE disk
        /\ ret' = Ret(ZeroResult, FALSE, IF outcome = "fail" THEN "err" ELSE "nil")
        /\ UNCHANGED <<maxEntries, ll, items, touched, lastPut, scanVars, otherVars>>

\* (C7 mutant) the two counts are taken from each other's field
FromItem_SwapsCounts(item) ==
    scanResultMsg(item.Path, item.Entries, item.TotalSize, item.TotalDirs,
                  item.TotalFiles, item.DirModTime)

\* the value LoadFromDisk builds from a decoded item
FromItem(item) ==
    scanResultMsg(item.Path, item.Entries, item.TotalSize, item.TotalFiles,
                  item.TotalDirs, item.DirModTime)

\* (C9 mutant) a record of exactly the maximal age counts as stale
Stale_AtMaxAge(t, item) == Sub(t, item.CachedAt) >= cacheMaxAge

\* now.Sub(item.CachedAt) > cacheMaxAge
Stale(t, item) == Sub(t, item.CachedAt) > cacheMaxAge

\* (C10 mutant) the schema version is not looked at
VersionOK_Any(sc) == TRUE

\* sc.Version != cacheVersion returns early
VersionOK(sc) == sc.Version = cacheVersion

\* (C39 mutant) a record that finds the cache full is not loaded
RECURSIVE LoadLoop_StopsWhenFull(_, _, _, _, _)
LoadLoop_StopsWhenFull(c, max, its, i, t) ==
    IF i = 0 THEN c
    ELSE IF Stale(t, its[i]) \/ (Len(c.ll) >= max /\ its[i].Path \notin c.items)
         THEN LoadLoop_StopsWhenFull(c, max, its, i - 1, t)
         ELSE LoadLoop_StopsWhenFull(PutC(c, max, its[i].Path, FromItem(its[i])),
                                     max, its, i - 1, t)

\* (C12 mutant) the loop runs from the first item of the file to the last
RECURSIVE LoadLoop_Forward(_, _, _, _, _)
LoadLoop_Forward(c, max, its, i, t) ==
    IF i = 0 THEN c
    ELSE LET k == Len(its) + 1 - i
         IN  IF Stale(t, its[k])
             THEN LoadLoop_Forward(c, max, its, i - 1, t)
             ELSE LoadLoop_Forward(PutC(c, max, its[k].Path, FromItem(its[k])),
                                   max, its, i - 1, t)

\* the loop of LoadFromDisk: items i, i-1, .., 1 of its, stale ones skipped
RECURSIVE LoadLoop(_, _, _, _, _)
LoadLoop(c, max, its, i, t) ==
    IF i = 0 THEN c
    ELSE IF Stale(t, its[i])
         THEN LoadLoop(c, max, its, i - 1, t)
         ELSE LoadLoop(PutC(c, max, its[i].Path, FromItem(its[i])), max, its, i - 1, t)

\* the histories after the Puts of that loop
RECURSIVE LoadTouched(_, _, _, _)
LoadTouched(h, its, i, t) ==
    IF i = 0 THEN h
    ELSE IF Stale(t, its[i])
         THEN LoadTouched(h, its, i - 1, t)
         ELSE LoadTouched(Touch(h, its[i].Path), its, i - 1, t)

RECURSIVE LoadLastPut(_, _, _, _)
LoadLastPut(lp, its, i, t) ==
    IF i = 0 THEN lp
    ELSE IF Stale(t, its[i])
         THEN LoadLastPut(lp, its, i - 1, t)
         ELSE LoadLastPut(Record(lp, its[i].Path, FromItem(its[i])), its, i - 1, t)

\* LoadFromDisk.  nohome: os.UserHomeDir fails
LoadFromDisk(nohome) ==
    LET dec == GobDecode(disk)
        runs == ~nohome /\ dec.ok /\ VersionOK(dec.sc)
        t == Time(now, TRUE)
        n == Len(dec.sc.Items)
        c == LoadLoop(Cache(ll, items), maxEntries, dec.sc.Items, n, t)
    IN  /\ op' = Op("Load", "", IF nohome THEN "nohome"
                                 ELSE IF ll = <<>> THEN "empty" ELSE "nonempty")
        /\ ll' = IF runs THEN c.ll ELSE ll
        /\ items' = IF runs THEN c.items ELSE items
        /\ touched' = IF runs
                      THEN Forget(LoadTouched(touched, dec.sc.Items, n, t), items')
                      ELSE touched
        /\ lastPut' = IF runs
                      THEN ForgetPut(LoadLastPut(lastPut, dec.sc.Items, n, t), items')
                      ELSE lastPut
        /\ ret' = Ret(ZeroResult, FALSE,
                      IF ~nohome /\ disk.kind = "unreadable" THEN "err" ELSE "nil")
        /\ UNCHANGED <<maxEntries, disk, now, scanVars, otherVars>>

(* --------------------------- the environment -------------------------- *)

\* the environment's steps call nothing
EnvStep ==
    /\ op' = Op("env", "", "")
    /\ ret' = NoRet
    /\ UNCHANGED <<maxEntries, ll, items, touched, lastPut, scanVars, otherVars>>

\* a day passes
Tick ==
    /\ now < MaxTime
    /\ now' = now + 1
    /\ EnvStep
    /\ UNCHANGED disk

\* the cache file is removed, made unreadable, or damaged
FileBecomes(kind) ==
    /\ disk.kind = "file"
    /\ disk' = NoFile(kind)
    /\ EnvStep
    /\ UNCHANGED now

\* what a build with another schema version leaves in the cache file: here
\* records for "/a" and "/b", written now
ForeignItems ==
    SaveItems(<<cacheItem("/a", CHOOSE v \in ResultsFor("/a") : v.entries # <<>>),
                cacheItem("/b", CHOOSE v \in ResultsFor("/b") : TRUE)>>,
              Stamps(2, now, 2))

\* the cache file is replaced by one of schema version v
FileOfVersion(v) ==
    /\ disk' = GobEncode(serializedCache(v, ForeignItems))
    /\ disk' # disk
    /\ EnvStep
    /\ UNCHANGED now

Next ==
    \/ \E n \in 1..MaxCap : NewCache(n)
    \/ \E k \in Keys : Get(k)
    \/ \E k \in Keys : \E v \in ResultsFor(k) : Put(k, v)
    \/ \E k \in Keys : Delete(k)
    \/ \E o \in {"nohome", "fail", "ok"} :
         \E j \in {0, 1, Min(Len(ll), diskCacheMax)} : SaveToDisk(o, j)
    \/ \E h \in BOOLEAN : LoadFromDisk(h)
    \/ Tick
    \/ \E kind \in {"absent", "unreadable", "corrupt"} : FileBecomes(kind)
    \/ FileOfVersion(cacheVersion + 1)

Spec == Init /\ [][Next]_vars

(* ------------- SaveToDisk on the caches of a long session -------------- *)

\* the i-th directory visited
BigKey(i) == "/d" \o ToString(i)

\* the scan result with entries of directory k
FullResult(k) == CHOOSE v \in ResultsFor(k) : v.entries # <<>>

BigResult(i) == FullResult(BigKey(i))

\* the cache of NewModel after scan results for n directories were Put, the
\* n-th last: below the capacity every Put of a new key is a PushFront
Filled(n) ==
    Cache([i \in 1..n |-> cacheItem(BigKey(n + 1 - i), BigResult(n + 1 - i))],
          {BigKey(i) : i \in 1..n})

\* .. and after the g-th of them was then looked up with Get (g = 0: none was)
Revisited(n, g) ==
    IF g = 0 THEN Filled(n)
    ELSE Cache(MoveToFront(Filled(n).ll, IndexOf(Filled(n).ll, BigKey(g))), Filled(n).items)

\* the access history of that session
RevisitedTouched(n, g) ==
    LET puts == [i \in 1..n |-> BigKey(n + 1 - i)]
    IN  IF g = 0 THEN puts ELSE Touch(puts, BigKey(g))

InitSave ==
    /\ maxEntries = modelCacheEntries
    /\ \E n \in 0..MaxFill : \E g \in {0, 1, n \div 2} :
         /\ g <= n
         /\ ll = Revisited(n, g).ll
         /\ items = Revisited(n, g).items
         /\ touched = RevisitedTouched(n, g)
         /\ lastPut = [k \in {BigKey(i) : i \in 1..n} |-> FullResult(k)]
    /\ disk = NoFile("absent")
    /\ now = 0
    /\ op = Op("new", "", "")
    /\ ret = NoRet
    /\ NoScan
    /\ NoOther

NextSave ==
    \E o \in {"nohome", "fail", "ok"} :
      \E j \in {0, 1, Min(Len(ll), diskCacheMax)} : SaveToDisk(o, j)

SpecSave == InitSave /\ [][NextSave]_vars

(* ------------- sessions that scan nothing after the first day ---------- *)

\* directories are scanned on day 0 only; later sessions start with NewModel
\* (newLRUCache and LoadFromDisk) and end with Quit (SaveToDisk)
NextSessions ==
    \/ \E k \in Keys : \E v \in ResultsFor(k) : now = 0 /\ Put(k, v)
    \/ \E n \in 1..MaxCap : NewCache(n)
    \/ \E h \in BOOLEAN : LoadFromDisk(h)
    \/ \E o \in {"nohome", "fail", "ok"} :
         \E j \in {0, 1, Min(Len(ll), diskCacheMax)} : SaveToDisk(o, j)
    \/ Tick

SpecSessions == Init /\ [][NextSessions]_vars

(* ======================= properties of the cache ====================== *)

\* the keys of list l, front first
KeySeq(l) == [i \in 1..Len(l) |-> l[i].key]

\* list l with the element of key k taken out
Without(l, k) == SelectSeq(l, LAMBDA e : e.key # k)

\* the cached value of key k in list l
ValueIn(l, k) == l[IndexOf(l, k)].value

\* C1: when Put inserts a new key into a full cache, the key that leaves the
\* cache is the one whose last Get or Put lies furthest back (the last key of
\* the access history), and every other key stays.
C1_EvictsLeastRecentlyUsed ==
    [][(op'.name = "Put" /\ op'.how = "full")
         => /\ touched # <<>>
            /\ items' = (items \cup {op'.key}) \ {touched[Len(touched)]}
            /\ KeysOf(ll') = items']_vars

\* C1 witness: capacity 2, "/a" was accessed after "/b" was stored, and Put of
\* "/c" into the full cache has kept "/a" and dropped "/b".
C1_Witness ==
    /\ maxEntries = 2
    /\ op = Op("Put", "/c", "full")
    /\ KeySeq(ll) = <<"/c", "/a">>
    /\ "/b" \notin items

\* C2: the number of cached entries never exceeds the capacity, and a Put of a
\* new key into a cache that holds capacity-many entries removes exactly one
\* entry (the count stays at the capacity).
C2_LenBounded ==
    /\ LenC <= maxEntries
    /\ [][/\ Len(ll') <= maxEntries'
          /\ Cardinality(items') <= maxEntries'
          /\ (op'.name = "Put" /\ op'.how = "full" /\ Len(ll) = maxEntries)
               => /\ Len(ll') = maxEntries
                  /\ Cardinality(items \ items') = 1
                  /\ Cardinality(KeysOf(ll) \ KeysOf(ll')) = 1]_vars

\* C2 witness: a Put has just evicted from a cache at capacity.
C2_Witness ==
    /\ op.name = "Put" /\ op.how = "full"
    /\ LenC = maxEntries
    /\ maxEntries = 2

\* C3: the map's key set is the list's key set, no key is in the list twice,
\* and the list is in order of last access, most recent first.
C3_MapMirrorsList ==
    /\ items = KeysOf(ll)
    /\ Cardinality(items) = Len(ll)
    /\ KeySeq(ll) = touched

\* C3 witness: a Get hit on a key that was not in front of a two-element list.
C3_Witness ==
    /\ op.name = "Get" /\ op.how = "hit"
    /\ Len(ll) = 2
    /\ ll[1].key = op.key
    /\ op.key = "/b" /\ ll[2].key = "/c"

\* C4: Put on a present key stores the new value, makes the key the most
\* recently used one, keeps every other entry and the count, evicts nothing.
C4_PutUpdates ==
    [][(op'.name = "Put" /\ op'.key \in items)
         => /\ ll'[1] = cacheItem(op'.key, lastPut'[op'.key])
            /\ Tail(ll') = Without(ll, op'.key)
            /\ Len(ll') = Len(ll)
            /\ items' = items]_vars

\* C4 witness: "/a", cached behind another key with one value, was Put with
\* the other value.
C4_Witness ==
    /\ op = Op("Put", "/a", "hit")
    /\ Len(ll) = 2
    /\ ll[1].key = "/a" /\ ll[1].value.totalFiles = 0
    /\ ll[2].key = "/b"

\* C5: a Get of a cached key returns found with the value of that key's
\* latest Put and moves the key to the front, the others keeping their order;
\* a Get of a key that is not cached returns not-found and changes nothing.
C5_GetReturnsLastPut ==
    [][op'.name = "Get"
         => IF op'.key \in items
            THEN /\ ret'.ok
                 /\ ret'.value = lastPut[op'.key]
                 /\ ll'[1].key = op'.key
                 /\ ll'[1].value = ret'.value
                 /\ Tail(ll') = Without(ll, op'.key)
                 /\ items' = items
            ELSE /\ ~ret'.ok
                 /\ ret'.value = ZeroResult
                 /\ ll' = ll
                 /\ items' = items]_vars

\* C5 witness: a Get hit that returned the 42-file result of "/a" and moved
\* "/a" in front of "/b".
C5_Witness ==
    /\ op = Op("Get", "/a", "hit")
    /\ ret.ok /\ ret.value.totalFiles = 42 /\ ret.value.path = "/a"
    /\ KeySeq(ll) = <<"/a", "/b">>

\* C6: Delete of a cached key removes it (a following Get misses) and makes
\* the count one less, every other entry keeping its value and its place
\* relative to the others; Delete of a key that is not cached changes nothing.
C6_DeleteFrame ==
    [][op'.name = "Delete"
         => IF op'.key \in items
            THEN /\ op'.key \notin items'
                 /\ op'.key \notin KeysOf(ll')
                 /\ Len(ll') = Len(ll) - 1
                 /\ ll' = Without(ll, op'.key)
                 /\ items' = items \ {op'.key}
            ELSE ll' = ll /\ items' = items]_vars

\* C6 witness: a cached key was deleted and another entry is still cached.
C6_Witness ==
    /\ op = Op("Delete", "/b", "hit")
    /\ KeySeq(ll) = <<"/a">>

(* ======================= properties of persistence ==================== *)

\* same instant (time.Time.Equal); the encoding keeps the instant and drops
\* the monotonic clock reading
SameInstant(a, b) == a.wall = b.wall

SameEntries(es, gs) ==
    /\ Len(es) = Len(gs)
    /\ \A i \in 1..Len(es) :
         /\ [es[i] EXCEPT !.ModTime = ZeroTime] = [gs[i] EXCEPT !.ModTime = ZeroTime]
         /\ SameInstant(es[i].ModTime, gs[i].ModTime)

\* cached value v and persisted record r hold the same scan result
SameRecord(v, r) ==
    /\ v.path = r.Path
    /\ v.totalSize = r.TotalSize
    /\ v.totalFiles = r.TotalFiles
    /\ v.totalDirs = r.TotalDirs
    /\ SameInstant(v.dirModTime, r.DirModTime)
    /\ SameEntries(v.entries, r.Entries)

\* age in days, at the present time, of persisted record r
Age(r) == now - r.CachedAt.wall

\* the step is a LoadFromDisk that read a cache file of the current version
LoadReads == op'.name = "Load" /\ op'.how # "nohome" /\ disk.kind = "file"

\* what Save writes is what the cache holds
SaveFaithful ==
    (op'.name = "Save" /\ op'.how = "ok")
      => /\ disk'.kind = "file"
         /\ disk'.Version = cacheVersion
         /\ \A i \in 1..Len(disk'.Items) : SameRecord(ll[i].value, disk'.Items[i])

\* every record of the file is in the cache after Load, unchanged
AllRestored ==
    \A i \in 1..Len(disk.Items) :
       /\ disk.Items[i].Path \in items'
       /\ disk.Items[i].Path \in KeysOf(ll')
       /\ SameRecord(ValueIn(ll', disk.Items[i].Path), disk.Items[i])

\* C7 as stated: after a Save, a Load into a fresh cache, within 24 hours and
\* with the same schema version, restores every saved record.
C7_RoundTripAnyCapacity ==
    [][/\ SaveFaithful
       /\ (LoadReads /\ op'.how = "empty" /\ disk.Version = cacheVersion
             /\ \A i \in 1..Len(disk.Items) : Age(disk.Items[i]) <= 1)
            => AllRestored]_vars

\* C7 amended: .. restores every saved record, provided the fresh cache's
\* capacity is at least the number of saved records.
C7_RoundTrip ==
    [][/\ SaveFaithful
       /\ (LoadReads /\ op'.how = "empty" /\ disk.Version = cacheVersion
             /\ (\A i \in 1..Len(disk.Items) : Age(disk.Items[i]) <= 1)
             /\ Len(disk.Items) <= maxEntries)
            => AllRestored]_vars

\* C7 witness: a fresh cache has loaded a two-record file a day after it was
\* saved and holds the 42-file result of "/a" with its entry file.go of size 1024.
C7_Witness ==
    /\ op = Op("Load", "", "empty")
    /\ disk.kind = "file" /\ disk.Version = cacheVersion
    /\ Len(disk.Items) = 2
    /\ \A i \in 1..2 : Age(disk.Items[i]) = 1
    /\ Len(ll) = 2
    /\ "/a" \in items
    /\ ValueIn(ll, "/a").totalFiles = 42
    /\ Len(ValueIn(ll, "/a").entries) = 1
    /\ ValueIn(ll, "/a").entries[1].Name = "file.go"
    /\ ValueIn(ll, "/a").entries[1].Size = 1024

\* C8: Save writes the min(50, Len()) most recently used entries, most recent
\* first, and leaves the cache as it was; a Save that fails or finds no home
\* directory leaves the file as it was.
C8_SaveTakesMostRecent ==
    [][op'.name = "Save"
         => /\ ll' = ll /\ items' = items /\ maxEntries' = maxEntries
            /\ IF op'.how = "ok"
               THEN /\ disk'.kind = "file"
                    /\ Len(disk'.Items) <= 50
                    /\ Len(disk'.Items) = IF Len(touched) < 50 THEN Len(touched) ELSE 50
                    /\ \A i \in 1..Len(disk'.Items) :
                         /\ disk'.Items[i].Path = touched[i]
                         /\ SameRecord(lastPut[touched[i]], disk'.Items[i])
               ELSE disk' = disk]_vars

\* C8 witness: a cache of 52 entries, the first-stored of which was looked up
\* last, was saved: the file has 50 records, that one first, and the two least
\* recently used ones are not in it.
C8_Witness ==
    /\ op = Op("Save", "", "ok")
    /\ Len(ll) = 52
    /\ disk.kind = "file"
    /\ Len(disk.Items) = 50
    /\ disk.Items[1].Path = BigKey(1)
    /\ disk.Items[50].Path = BigKey(4)
    /\ ll[51].key = BigKey(3) /\ ll[52].key = BigKey(2)

\* C9 as stated: after Load every persisted record older than 24 hours is
\* absent from the cache and every other record is present.
C9_StaleAbsentFreshPresent ==
    [][(LoadReads /\ disk.Version = cacheVersion)
         => \A i \in 1..Len(disk.Items) :
              IF Age(disk.Items[i]) > 1
              THEN disk.Items[i].Path \notin items'
              ELSE disk.Items[i].Path \in items']_vars

\* the records of the file that are at most 24 hours old
FreshRecords == { i \in 1..Len(disk.Items) : Age(disk.Items[i]) <= 1 }

\* C9 amended: Load inserts no record older than 24 hours (its path is in the
\* cache afterwards only if it was before, with the value it had), and every
\* other record is present afterwards provided there are no more of them than
\* the cache has capacity; this is decided record by record.
C9_StaleSkippedFreshLoaded ==
    [][(LoadReads /\ disk.Version = cacheVersion)
         => /\ \A i \in 1..Len(disk.Items) :
                 (Age(disk.Items[i]) > 1 /\ disk.Items[i].Path \in items')
                   => /\ disk.Items[i].Path \in items
                      /\ ValueIn(ll', disk.Items[i].Path) = ValueIn(ll, disk.Items[i].Path)
            /\ Cardinality(FreshRecords) <= maxEntries
                 => \A i \in FreshRecords :
                      /\ disk.Items[i].Path \in items'
                      /\ SameRecord(ValueIn(ll', disk.Items[i].Path), disk.Items[i])]_vars

\* C9 witness: the file's first record is two days old, its second one day;
\* an empty cache has loaded the second and not the first.
C9_Witness ==
    /\ op = Op("Load", "", "empty")
    /\ disk.kind = "file" /\ disk.Version = cacheVersion
    /\ Len(disk.Items) = 2
    /\ Age(disk.Items[1]) = 2 /\ Age(disk.Items[2]) = 1
    /\ items = {disk.Items[2].Path}
    /\ KeySeq(ll) = <<disk.Items[2].Path>>

\* C10: a Load that finds a file of another schema version inserts nothing,
\* leaves the cache as it was and returns no error.
C10_OtherVersionIgnored ==
    [][(LoadReads /\ disk.Version # cacheVersion)
         => /\ ll' = ll
            /\ items' = items
            /\ ret'.err = "nil"]_vars

\* C10 witness: Load was called on a cache holding "/c" while the file has
\* another version and fresh records for paths that are not cached.
C10_Witness ==
    /\ op = Op("Load", "", "nonempty")
    /\ disk.kind = "file" /\ disk.Version # cacheVersion
    /\ Len(disk.Items) = 2
    /\ \A i \in 1..2 : Age(disk.Items[i]) = 0 /\ disk.Items[i].Path \notin items
    /\ KeySeq(ll) = <<"/c">>
    /\ ret.err = "nil"

\* C11: a Load that finds the cache file missing, unreadable or malformed
\* returns no error, inserts nothing and leaves the cache as it was.
C11_LoadFailureSilent ==
    [][(op'.name = "Load" /\ op'.how # "nohome"
          /\ disk.kind \in {"absent", "unreadable", "corrupt"})
         => /\ ret'.err = "nil"
            /\ ll' = ll
            /\ items' = items]_vars

\* the paths of the records of the file that are at most 24 hours old, in the
\* order of the file
FreshPaths == KeySeq(SelectSeq([i \in 1..Len(disk.Items) |->
                                  [key |-> disk.Items[i].Path, age |-> Age(disk.Items[i])]],
                               LAMBDA r : r.age <= cacheMaxAge))

\* C12: after a Load into an empty cache the loaded records are in the cache
\* in the order they have in the file, which is their recency order at Save;
\* the first record of the file, if it was loaded, is the most recently used.
C12_LoadKeepsRecency ==
    [][(LoadReads /\ op'.how = "empty" /\ disk.Version = cacheVersion)
         => /\ KeySeq(ll') = SubSeq(FreshPaths, 1, Min(Len(FreshPaths), maxEntries))
            /\ (Len(disk.Items) > 0 /\ Age(disk.Items[1]) <= cacheMaxAge)
                 => ll'[1].key = disk.Items[1].Path]_vars

\* C12 witness: a cache in which "/b" was used more recently than "/a" was
\* saved, and an empty cache has loaded the file: "/b" is before "/a" again.
C12_Witness ==
    /\ op = Op("Load", "", "empty")
    /\ disk.kind = "file" /\ disk.Version = cacheVersion
    /\ Len(disk.Items) = 2
    /\ disk.Items[1].Path = "/b" /\ disk.Items[2].Path = "/a"
    /\ \A i \in 1..2 : Age(disk.Items[i]) <= cacheMaxAge
    /\ KeySeq(ll) = <<"/b", "/a">>

(* ========================= the directory scanner ====================== *)

(* ------------------------------ bounds -------------------------------- *)

\* a scanned directory has 0..MaxChildren immediate children
MaxChildren == 3

\* values of runtime.NumCPU()
CPUs == {1, 2, 17}

(* ------------------------- program constants -------------------------- *)

\* minInt(runtime.NumCPU(), 16)
scanPoolMax == 16

\* len(fileEntries) > 20
statParallelMin == 20

\* the number of files of a directory whose files are stat'd in parallel
WideLen == statParallelMin + 1

(* --------------------------- the file system -------------------------- *)

\* the modification time every file and directory has
Mtime == Time(3, FALSE)

\* os.DirEntry.  typ: "file", "dir" or "symlink"; size and info: what Info()
\* (an lstat) returns and whether it succeeds; target: what os.Stat of a
\* symlink finds, "dir", "file" or "none"; dir: the directory behind a "dir"
\* or behind a symlink to one
DirEntry(name, typ, size, info, target, dir) ==
    [Name |-> name, typ |-> typ, size |-> size, info |-> info,
     target |-> target, dir |-> dir]

\* a directory that os.ReadDir can list, and its listing
Listing(list) == [ok |-> TRUE, list |-> list]

RegularFile(name, size) == DirEntry(name, "file", size, TRUE, "", NoDir)

\* a file that is removed between ReadDir and Info()
GoneFile(name, size) == DirEntry(name, "file", size, FALSE, "", NoDir)

Directory(name, dir) == DirEntry(name, "dir", 0, TRUE, "", dir)

SymlinkTo(name, target, dir) == DirEntry(name, "symlink", 2, TRUE, target, dir)

\* the name of the i-th entry of a listing; os.ReadDir returns the entries
\* sorted by name
NameAt(i) ==
    IF i = 1 THEN ".git"
    ELSE IF i = 2 THEN "f02.png"
    ELSE "f" \o (IF i < 10 THEN "0" ELSE "") \o ToString(i)

\* strings.HasPrefix(name, "."), on the names in use
HasDotPrefix(name) == name = ".git"

\* isBinaryExt(name), on the names in use
isBinaryExt(name) == name = "f02.png"

\* directories met below the scanned one
DeepDir ==
    Listing(<<RegularFile("x", 1),
              Directory("y", Listing(<<RegularFile("x", 2),
                                       Directory("z", Listing(<<RegularFile("x", 5)>>))>>))>>)

FlatDir == Listing(<<RegularFile("x", 5)>>)

EmptyDir == Listing(<<>>)

\* a file, a directory that cannot be listed and holds a file of 6 bytes, and
\* a file that is gone when it is stat'd
BlockedDir ==
    Listing(<<RegularFile("w", 1),
              Directory("x", [ok |-> FALSE, list |-> <<RegularFile("x", 6)>>]),
              GoneFile("y", 4)>>)

\* what an immediate child can be: a file of 5 bytes, a file that is gone when
\* it is stat'd, a symlink to a file, two directories and a symlink to an
\* empty directory
ChildKinds ==
    { RegularFile("", 5), GoneFile("", 7), SymlinkTo("", "file", NoDir),
      Directory("", DeepDir), Directory("", BlockedDir),
      SymlinkTo("", "dir", EmptyDir) }

\* the listings of n children, named in listing order
Listings(n) ==
    { [i \in 1..n |-> [kinds[i] EXCEPT !.Name = NameAt(i)]] : kinds \in [1..n -> ChildKinds] }

\* a wide directory: d subdirectories and then WideLen files of 0, 1 or 2 bytes;
\* one with a single subdirectory is scanned
WideListing(d) ==
    [i \in 1..(d + WideLen) |->
        IF i <= d THEN Directory(NameAt(i), FlatDir)
        ELSE RegularFile(NameAt(i), i % 3)]

\* the same directory with one file less: as many files as the sequential loop
\* still takes
NarrowListing(d) == SubSeq(WideListing(d), 1, d + statParallelMin)

\* what is at the scanned path
Root(abs, stat, isDir, dir) ==
    [path |-> "/a", abs |-> abs, stat |-> stat, isDir |-> isDir,
     modTime |-> Mtime, dir |-> dir]

\* the paths a scan fails on: filepath.Abs fails, os.Stat fails, the path is
\* a file, the directory cannot be listed
FailingRoots ==
    { Root(FALSE, TRUE, TRUE, EmptyDir), Root(TRUE, FALSE, TRUE, EmptyDir),
      Root(TRUE, TRUE, FALSE, NoDir),
      Root(TRUE, TRUE, TRUE, [ok |-> FALSE, list |-> <<RegularFile(NameAt(1), 5)>>]) }

Roots ==
    FailingRoots
    \cup { Root(TRUE, TRUE, TRUE, Listing(l)) :
             l \in UNION { Listings(n) : n \in 0..MaxChildren } }
    \cup { Root(TRUE, TRUE, TRUE, Listing(WideListing(1))),
           Root(TRUE, TRUE, TRUE, Listing(NarrowListing(1))) }

(* ------------------------- dirSizeRecursive --------------------------- *)

dirAgg(size, files, dirs) == [size |-> size, files |-> files, dirs |-> dirs]

\* the sum of two results, field by field; the pair is bound once, so that
\* each operand is evaluated once
AddAgg(a, b) ==
    CHOOSE r \in { dirAgg(p[1].size + p[2].size, p[1].files + p[2].files,
                          p[1].dirs + p[2].dirs) : p \in {<<a, b>>} } : TRUE

\* (C15 mutant) the directory itself is counted among its directories
RECURSIVE dirSizeRecursive_CountsSelf(_)
dirSizeRecursive_CountsSelf(d) ==
    IF ~d.ok THEN dirAgg(0, 0, 1)
    ELSE LET RECURSIVE Walk(_)
             Walk(i) ==
                 IF i > Len(d.list) THEN dirAgg(0, 0, 1)
                 ELSE LET e == d.list[i]
                      IN  AddAgg(IF e.typ = "dir"
                                 THEN dirSizeRecursive_CountsSelf(e.dir)
                                 ELSE dirAgg(IF e.info THEN e.size ELSE 0, 1, 0),
                                 Walk(i + 1))
         IN  Walk(1)

\* (C21 mutant) an entry that cannot be read is left out of the counts: a
\* file whose Info() fails is no file, a directory that cannot be listed is no
\* directory
RECURSIVE dirSizeRecursive_DropsUnreadable(_)
dirSizeRecursive_DropsUnreadable(d) ==
    IF ~d.ok THEN dirAgg(0, 0, 0)
    ELSE LET RECURSIVE Walk(_)
             Walk(i) ==
                 IF i > Len(d.list) THEN dirAgg(0, 0, 0)
                 ELSE LET e == d.list[i]
                      IN  AddAgg(IF e.typ = "dir"
                                 THEN IF e.dir.ok
                                      THEN AddAgg(dirAgg(0, 0, 1),
                                                  dirSizeRecursive_DropsUnreadable(e.dir))
                                      ELSE dirAgg(0, 0, 0)
                                 ELSE IF e.info THEN dirAgg(e.size, 1, 0)
                                      ELSE dirAgg(0, 0, 0),
                                 Walk(i + 1))
         IN  Walk(1)

\* dirSizeRecursive(path), d being the directory at path: (0, 0, 0) when it
\* cannot be listed; an entry with IsDir() adds one directory and what is
\* below it, any other entry adds one file and, when Info() succeeds, its size
RECURSIVE dirSizeRecursive(_)
dirSizeRecursive(d) ==
    IF ~d.ok THEN dirAgg(0, 0, 0)
    ELSE LET RECURSIVE Walk(_)
             Walk(i) ==
                 IF i > Len(d.list) THEN dirAgg(0, 0, 0)
                 ELSE LET e == d.list[i]
                      IN  AddAgg(IF e.typ = "dir"
                                 THEN AddAgg(dirAgg(0, 0, 1), dirSizeRecursive(e.dir))
                                 ELSE dirAgg(IF e.info THEN e.size ELSE 0, 1, 0),
                                 Walk(i + 1))
         IN  Walk(1)

(* ------------------------------ SortBySize ---------------------------- *)

\* (C19 mutant) sort.Slice in place of sort.SliceStable: entries of equal
\* size come out in the opposite order
SortBySize_Unstable(es) ==
    LET n == Len(es)
        place(i) == Cardinality({ j \in 1..n : es[j].Size > es[i].Size })
                    + Cardinality({ j \in (i + 1)..n : es[j].Size = es[i].Size }) + 1
    IN  [k \in 1..n |-> es[CHOOSE i \in 1..n : place(i) = k]]

\* SortBySize: sort.SliceStable with less(i, j) = entries[i].Size > entries[j].Size;
\* an element comes behind the larger ones and behind the equal ones that
\* were before it
SortBySize(es) ==
    LET n == Len(es)
        place(i) == Cardinality({ j \in 1..n : es[j].Size > es[i].Size })
                    + Cardinality({ j \in 1..(i - 1) : es[j].Size = es[i].Size }) + 1
    IN  [k \in 1..n |-> es[CHOOSE i \in 1..n : place(i) = k]]

(* ----------------------------- scanDirectory -------------------------- *)

\* FileEntry{}
ZeroEntry == [FileEntry("", 0, FALSE, ZeroTime) EXCEPT !.Percentage = 0]

scanErrorMsg(err) == [type |-> "scanErrorMsg", err |-> err]

scanResult(r) == [type |-> "scanResultMsg", result |-> r]

\* dirResult; index counts from 0 as in the code
dirResult(index, size, childFiles, childDirs) ==
    [index |-> index, size |-> size, childFiles |-> childFiles, childDirs |-> childDirs]

\* (C13 mutant) a symlink is never followed
isDirChild_NoFollow(de) == de.typ = "dir"

\* the isDir of the classification loop: de.IsDir(), or a symlink whose
\* os.Stat succeeds and finds a directory
isDirChild(de) == de.typ = "dir" \/ (de.typ = "symlink" /\ de.target = "dir")

\* the FileEntry appended for a directory
DirFileEntry(de) ==
    [ZeroEntry EXCEPT !.Name = de.Name, !.IsDir = TRUE,
                      !.IsHidden = HasDotPrefix(de.Name),
                      !.IsSymlink = (de.typ = "symlink"),
                      !.ModTime = IF de.info THEN Mtime ELSE ZeroTime]

\* the FileEntry built for a file, by a file-stat goroutine or by the
\* sequential loop
FileStat(de) ==
    [ZeroEntry EXCEPT !.Name = de.Name,
                      !.IsHidden = HasDotPrefix(de.Name),
                      !.IsBinary = isBinaryExt(de.Name),
                      !.IsSymlink = (de.typ = "symlink"),
                      !.Size = IF de.info THEN de.size ELSE 0,
                      !.ModTime = IF de.info THEN Mtime ELSE ZeroTime]

\* the directories and the files of a listing, each in listing order
DirsOf(list) == SelectSeq(list, isDirChild)

FilesOf(list) == SelectSeq(list, LAMBDA de : ~isDirChild(de))

\* the entry of the listing with the given name
ChildNamed(name) ==
    LET list == fs.dir.list
    IN  list[CHOOSE i \in 1..Len(list) : list[i].Name = name]

RECURSIVE SumSizes(_)
SumSizes(es) == IF es = <<>> THEN 0 ELSE es[1].Size + SumSizes(Tail(es))

minInt(a, b) == IF a < b THEN a ELSE b

\* cap(sem) of the directory block
PoolSize == minInt(numCPU, scanPoolMax)

\* (C17 mutant) a send goes through although the channel is full
CanSend_Full(n, cap) == n <= cap

\* sem <- struct{}{} does not block: the channel holds fewer than cap elements
CanSend(n, cap) == n < cap

\* (C18 mutant) the deferred receive is missing: the slot is kept
Receive_Kept(n) == n

\* <-sem
Receive(n) == n - 1

\* (C16 mutant) Wait returns at once
WaitReturns_AtOnce(counter) == TRUE

\* wg.Wait() returns when the counter is zero
WaitReturns(counter) == counter = 0

\* (C14 mutant) the percentage is taken of the size of the files alone
Percent_OfFiles(size, total) ==
    LET files == SumSizes(SelectSeq(entries, LAMBDA e : ~e.IsDir))
    IN  IF files = 0 THEN 0 ELSE (size * 100) \div files

\* float64(size) / float64(total) * 100, in whole percent rounded down
Percent(size, total) == (size * 100) \div total

InitScan ==
    /\ maxEntries = modelCacheEntries
    /\ ll = <<>> /\ items = {} /\ touched = <<>> /\ lastPut = <<>>
    /\ disk = NoFile("absent") /\ now = 0
    /\ op = Op("new", "", "") /\ ret = NoRet
    /\ fs \in Roots
    /\ numCPU \in CPUs
    /\ pc = "list"
    /\ entries = <<>> /\ fileEntries = <<>> /\ dirEntryIndices = <<>>
    /\ totalSize = 0 /\ totalFiles = 0 /\ totalDirs = 0
    /\ results = <<>> /\ wpc = <<>> /\ sem = 0 /\ wg = 0
    /\ fw = NoWorkers /\ fwg = 0
    /\ msgs = <<>>
    /\ NoOther

\* (C20 mutant) the error of os.ReadDir is not looked at
ListErr_IgnoresReadDir(root) ==
    IF ~root.abs THEN "abs" ELSE IF ~root.stat THEN "stat" ELSE "nil"

\* the first err != nil of filepath.Abs, os.Stat and os.ReadDir; os.ReadDir
\* fails on a path that is not a directory and on one it cannot list
ListErr(root) ==
    IF ~root.abs THEN "abs"
    ELSE IF ~root.stat THEN "stat"
    ELSE IF ~root.isDir \/ ~root.dir.ok THEN "readdir"
    ELSE "nil"

\* filepath.Abs, os.Stat, os.ReadDir and the classification loop
List ==
    /\ pc = "list"
    /\ IF ListErr(fs) # "nil"
       THEN /\ msgs' = Append(msgs, scanErrorMsg(ListErr(fs)))
            /\ pc' = "returned"
            /\ UNCHANGED <<entries, fileEntries, dirEntryIndices, totalDirs, results>>
       ELSE LET dirs == DirsOf(fs.dir.list)
            IN  /\ entries' = [i \in 1..Len(dirs) |-> DirFileEntry(dirs[i])]
                /\ dirEntryIndices' = [i \in 1..Len(dirs) |->
                                         [index |-> i - 1, name |-> dirs[i].Name]]
                /\ fileEntries' = FilesOf(fs.dir.list)
                /\ totalDirs' = Len(dirs)
                /\ results' = [i \in 1..Len(dirs) |-> dirResult(0, 0, 0, 0)]
                /\ pc' = IF Len(dirs) > 0 THEN "spawn" ELSE "files"
                /\ UNCHANGED msgs
    /\ UNCHANGED <<fs, numCPU, totalSize, totalFiles, wpc, sem, wg, fw, fwg, vars, otherVars>>

\* one round of the loop over dirEntryIndices: wg.Add(1); go func(ri, di)
Spawn ==
    /\ pc = "spawn"
    /\ wg' = wg + 1
    /\ wpc' = Append(wpc, "start")
    /\ pc' = IF Len(wpc') = Len(dirEntryIndices) THEN "wait" ELSE "spawn"
    /\ UNCHANGED <<fs, numCPU, entries, fileEntries, dirEntryIndices, totalSize,
                   totalFiles, totalDirs, results, sem, fw, fwg, msgs, vars, otherVars>>

\* goroutine ri: sem <- struct{}{}
Acquire(ri) ==
    /\ wpc[ri] = "start"
    /\ CanSend(sem, PoolSize)
    /\ sem' = sem + 1
    /\ wpc' = [wpc EXCEPT ![ri] = "holding"]
    /\ UNCHANGED <<fs, numCPU, pc, entries, fileEntries, dirEntryIndices, totalSize,
                   totalFiles, totalDirs, results, wg, fw, fwg, msgs, vars, otherVars>>

\* (C22 mutant) the result is stored behind the results stored before it, in
\* the order in which the goroutines finish, under the index of that place
DirSize_InCompletionOrder(ri) ==
    /\ wpc[ri] = "holding"
    /\ LET k == 1 + Cardinality({ r \in 1..Len(wpc) : wpc[r] \in {"computed", "released", "done"} })
           agg == dirSizeRecursive(ChildNamed(dirEntryIndices[ri].name).dir)
       IN  results' = [results EXCEPT
                         ![k] = dirResult(dirEntryIndices[k].index, agg.size, agg.files, agg.dirs)]
    /\ wpc' = [wpc EXCEPT ![ri] = "computed"]
    /\ UNCHANGED <<fs, numCPU, pc, entries, fileEntries, dirEntryIndices, totalSize,
                   totalFiles, totalDirs, sem, wg, fw, fwg, msgs, vars, otherVars>>

\* goroutine ri: dirSizeRecursive(dirPath) and the store into results[ri]
DirSize(ri) ==
    /\ wpc[ri] = "holding"
    /\ LET info == dirEntryIndices[ri]
           agg == dirSizeRecursive(ChildNamed(info.name).dir)
       IN  results' = [results EXCEPT
                         ![ri] = dirResult(info.index, agg.size, agg.files, agg.dirs)]
    /\ wpc' = [wpc EXCEPT ![ri] = "computed"]
    /\ UNCHANGED <<fs, numCPU, pc, entries, fileEntries, dirEntryIndices, totalSize,
                   totalFiles, totalDirs, sem, wg, fw, fwg, msgs, vars, otherVars>>

\* goroutine ri: the deferred <-sem
Release(ri) ==
    /\ wpc[ri] = "computed"
    /\ sem' = Receive(sem)
    /\ wpc' = [wpc EXCEPT ![ri] = "released"]
    /\ UNCHANGED <<fs, numCPU, pc, entries, fileEntries, dirEntryIndices, totalSize,
                   totalFiles, totalDirs, results, wg, fw, fwg, msgs, vars, otherVars>>

\* goroutine ri: the deferred wg.Done()
Done(ri) ==
    /\ wpc[ri] = "released"
    /\ wg' = wg - 1
    /\ wpc' = [wpc EXCEPT ![ri] = "done"]
    /\ UNCHANGED <<fs, numCPU, pc, entries, fileEntries, dirEntryIndices, totalSize,
                   totalFiles, totalDirs, results, sem, fw, fwg, msgs, vars, otherVars>>

\* wg.Wait() of the directory block
Wait ==
    /\ pc = "wait"
    /\ WaitReturns(wg)
    /\ pc' = "apply"
    /\ UNCHANGED <<fs, numCPU, entries, fileEntries, dirEntryIndices, totalSize,
                   totalFiles, totalDirs, results, wpc, sem, wg, fw, fwg, msgs, vars, otherVars>>

\* entries after the loop "for _, r := range results", from its i-th round on
RECURSIVE ApplyResults(_, _, _)
ApplyResults(es, rs, i) ==
    IF i > Len(rs) THEN es
    ELSE ApplyResults([es EXCEPT ![rs[i].index + 1] =
                          [@ EXCEPT !.Size = rs[i].size,
                                    !.ChildFiles = rs[i].childFiles,
                                    !.ChildDirs = rs[i].childDirs]],
                      rs, i + 1)

RECURSIVE SumResults(_)
SumResults(rs) == IF rs = <<>> THEN 0 ELSE rs[1].size + SumResults(Tail(rs))

\* "Apply results back to entries"
Apply ==
    /\ pc = "apply"
    /\ entries' = ApplyResults(entries, results, 1)
    /\ totalSize' = totalSize + SumResults(results)
    /\ pc' = "files"
    /\ UNCHANGED <<fs, numCPU, fileEntries, dirEntryIndices, totalFiles, totalDirs,
                   results, wpc, sem, wg, fw, fwg, msgs, vars, otherVars>>

\* (C33 mutant) a directory of exactly statParallelMin files is stat-ed in
\* parallel too
UseParallel_AtThreshold(n) == n >= statParallelMin

\* "Stat files - parallel if large directory": if len(fileEntries) > 20
UseParallel(n) == n > statParallelMin

\* the sequential loop over fileEntries
StatFiles ==
    /\ pc = "files"
    /\ ~UseParallel(Len(fileEntries))
    /\ LET stats == [i \in 1..Len(fileEntries) |-> FileStat(fileEntries[i])]
       IN  /\ entries' = entries \o stats
           /\ totalFiles' = totalFiles + Len(stats)
           /\ totalSize' = totalSize + SumSizes(stats)
    /\ pc' = "finish"
    /\ UNCHANGED <<fs, numCPU, fileEntries, dirEntryIndices, totalDirs, results,
                   wpc, sem, wg, fw, fwg, msgs, vars, otherVars>>

\* the file-stat goroutines run the same code on different indices and store
\* into different elements of results; they are followed by number
FwSpawned == fw.start + fw.holding + fw.computed + fw.released + fw.done

\* one round of the loop over fileEntries: wg.Add(1); go func(i, d)
FSpawn ==
    /\ pc = "files"
    /\ UseParallel(Len(fileEntries))
    /\ fwg' = fwg + 1
    /\ fw' = [fw EXCEPT !.start = @ + 1]
    /\ pc' = IF FwSpawned + 1 = Len(fileEntries) THEN "fwait" ELSE "files"
    /\ UNCHANGED <<fs, numCPU, entries, fileEntries, dirEntryIndices, totalSize,
                   totalFiles, totalDirs, results, wpc, sem, wg, msgs, vars, otherVars>>

\* a file-stat goroutine: sem <- struct{}{}, the channel being of size
\* runtime.NumCPU()
FAcquire ==
    /\ fw.start > 0
    /\ CanSend(fw.holding + fw.computed, numCPU)
    /\ fw' = [fw EXCEPT !.start = @ - 1, !.holding = @ + 1]
    /\ UNCHANGED <<fs, numCPU, pc, entries, fileEntries, dirEntryIndices, totalSize,
                   totalFiles, totalDirs, results, wpc, sem, wg, fwg, msgs, vars, otherVars>>

\* a file-stat goroutine: d.Info() and the store into results[i]
FStat ==
    /\ fw.holding > 0
    /\ fw' = [fw EXCEPT !.holding = @ - 1, !.computed = @ + 1]
    /\ UNCHANGED <<fs, numCPU, pc, entries, fileEntries, dirEntryIndices, totalSize,
                   totalFiles, totalDirs, results, wpc, sem, wg, fwg, msgs, vars, otherVars>>

\* a file-stat goroutine: the deferred <-sem
FRelease ==
    /\ fw.computed > 0
    /\ fw' = [fw EXCEPT !.computed = @ - 1, !.released = @ + 1]
    /\ UNCHANGED <<fs, numCPU, pc, entries, fileEntries, dirEntryIndices, totalSize,
                   totalFiles, totalDirs, results, wpc, sem, wg, fwg, msgs, vars, otherVars>>

\* a file-stat goroutine: the deferred wg.Done()
FDone ==
    /\ fw.released > 0
    /\ fw' = [fw EXCEPT !.released = @ - 1, !.done = @ + 1]
    /\ fwg' = fwg - 1
    /\ UNCHANGED <<fs, numCPU, pc, entries, fileEntries, dirEntryIndices, totalSize,
                   totalFiles, totalDirs, results, wpc, sem, wg, msgs, vars, otherVars>>

\* wg.Wait() of the file block
FWait ==
    /\ pc = "fwait"
    /\ WaitReturns(fwg)
    /\ pc' = "collect"
    /\ UNCHANGED <<fs, numCPU, entries, fileEntries, dirEntryIndices, totalSize,
                   totalFiles, totalDirs, results, wpc, sem, wg, fw, fwg, msgs, vars, otherVars>>

\* the results slice of the file block when n of its elements were stored
FileResults(n) ==
    [i \in 1..Len(fileEntries) |-> IF i <= n THEN FileStat(fileEntries[i]) ELSE ZeroEntry]

\* the loop "for _, e := range results" of the file block
Collect ==
    /\ pc = "collect"
    /\ LET stats == FileResults(fw.computed + fw.released + fw.done)
       IN  /\ entries' = entries \o stats
           /\ totalFiles' = totalFiles + Len(stats)
           /\ totalSize' = totalSize + SumSizes(stats)
    /\ pc' = "finish"
    /\ UNCHANGED <<fs, numCPU, fileEntries, dirEntryIndices, totalDirs, results,
                   wpc, sem, wg, fw, fwg, msgs, vars, otherVars>>

\* "Compute final percentages"
WithPercentages(es, total) ==
    IF total > 0
    THEN [i \in 1..Len(es) |-> [es[i] EXCEPT !.Percentage = Percent(es[i].Size, total)]]
    ELSE es

\* the percentages, SortBySize and the return of the scanResultMsg
Finish ==
    /\ pc = "finish"
    /\ entries' = SortBySize(WithPercentages(entries, totalSize))
    /\ msgs' = Append(msgs, scanResult(scanResultMsg(fs.path, entries', totalSize,
                                                     totalFiles, totalDirs, fs.modTime)))
    /\ pc' = "returned"
    /\ UNCHANGED <<fs, numCPU, fileEntries, dirEntryIndices, totalSize, totalFiles,
                   totalDirs, results, wpc, sem, wg, fw, fwg, vars, otherVars>>

NextScan ==
    \/ List
    \/ Spawn
    \/ \E ri \in 1..Len(wpc) : Acquire(ri)
    \/ \E ri \in 1..Len(wpc) : DirSize(ri)
    \/ \E ri \in 1..Len(wpc) : Release(ri)
    \/ \E ri \in 1..Len(wpc) : Done(ri)
    \/ Wait
    \/ Apply
    \/ StatFiles
    \/ FSpawn
    \/ FAcquire
    \/ FStat
    \/ FRelease
    \/ FDone
    \/ FWait
    \/ Collect
    \/ Finish

SpecScan == InitScan /\ [][NextScan]_<<vars, scanVars>>

\* the Go scheduler runs every goroutine that can run
SpecScanFair == SpecScan /\ WF_<<vars, scanVars>>(NextScan)

(* ============================ smart refresh =========================== *)

scanUpToDateMsg(path) == [type |-> "scanUpToDateMsg", path |-> path]

\* what cached.dirModTime can be: the time the directory has now, an earlier
\* and a later one
CachedTimes == { Mtime, Time(Mtime.wall - 1, FALSE), Time(Mtime.wall + 1, FALSE) }

\* the paths a refresh is asked for
RefreshRoots ==
    FailingRoots
    \cup { Root(TRUE, TRUE, TRUE, Listing(l)) :
             l \in UNION { Listings(n) : n \in 0..(MaxChildren - 1) } }
    \cup { Root(TRUE, TRUE, TRUE, Listing(WideListing(1))) }

\* (C23 mutant) a directory is taken as unchanged unless it is newer than the
\* cached result
Equal_NotAfter(t, u) == t.wall <= u.wall

\* time.Time.Equal: the same instant
Equal(t, u) == t.wall = u.wall

InitRefresh ==
    /\ maxEntries = modelCacheEntries
    /\ ll = <<>> /\ items = {} /\ touched = <<>> /\ lastPut = <<>>
    /\ disk = NoFile("absent") /\ now = 0
    /\ op = Op("new", "", "") /\ ret = NoRet
    /\ fs \in RefreshRoots
    /\ numCPU \in CPUs
    /\ pc = "refresh"
    /\ entries = <<>> /\ fileEntries = <<>> /\ dirEntryIndices = <<>>
    /\ totalSize = 0 /\ totalFiles = 0 /\ totalDirs = 0
    /\ results = <<>> /\ wpc = <<>> /\ sem = 0 /\ wg = 0
    /\ fw = NoWorkers /\ fwg = 0
    /\ msgs = <<>>
    /\ cachedModTime \in CachedTimes
    /\ NoLines
    /\ NoBatch
    /\ NoUI
    /\ NoMatch

\* smartRefreshCmd: os.Stat(path) and the comparison of the modification
\* times; scanDirectory(path)() goes on at the start of the scan
SmartRefresh ==
    /\ pc = "refresh"
    /\ IF fs.stat /\ Equal(fs.modTime, cachedModTime)
       THEN /\ msgs' = Append(msgs, scanUpToDateMsg(fs.path))
            /\ pc' = "returned"
       ELSE /\ pc' = "list"
            /\ UNCHANGED msgs
    /\ UNCHANGED <<fs, numCPU, entries, fileEntries, dirEntryIndices, totalSize,
                   totalFiles, totalDirs, results, wpc, sem, wg, fw, fwg, vars, otherVars>>

NextRefresh ==
    \/ SmartRefresh
    \/ NextScan

SpecRefresh == InitRefresh /\ [][NextRefresh]_<<vars, scanVars, otherVars>>

(* ============================ line counting =========================== *)

\* make([]byte, 64*1024) of bufPool
bufLen == 64 * 1024

\* isBinaryContent looks at the first 512 bytes
probeLen == 512

\* a file holds at most MaxRuns runs of equal bytes
MaxRuns == 3

\* at most MaxShortReads calls of f.Read return less than the buffer takes
\* and the file has left
MaxShortReads == 2

\* bytes: the zero byte, the newline, any other byte
Bytes == {"nul", "nl", "x"}

\* a run of len equal bytes; the content of a file and of a slice of the
\* buffer is a sequence of runs
Run(b, len) == [byte |-> b, len |-> len]

RunLens == {1, probeLen, bufLen}

Contents ==
    UNION { [1..n -> { Run(b, len) : b \in Bytes, len \in RunLens }] : n \in 0..MaxRuns }

\* len(data)
RECURSIVE Size(_)
Size(data) == IF data = <<>> THEN 0 ELSE data[1].len + Size(Tail(data))

\* data[off : off+n]
RECURSIVE Slice(_, _, _)
Slice(data, off, n) ==
    IF n <= 0 \/ data = <<>> THEN <<>>
    ELSE IF off >= data[1].len THEN Slice(Tail(data), off - data[1].len, n)
    ELSE LET take == minInt(data[1].len - off, n)
         IN  <<Run(data[1].byte, take)>> \o Slice(Tail(data), 0, n - take)

\* bytes.Count(data, []byte{b})
RECURSIVE Count(_, _)
Count(data, b) ==
    IF data = <<>> THEN 0
    ELSE (IF data[1].byte = b THEN data[1].len ELSE 0) + Count(Tail(data), b)

\* (C25 mutant) the whole chunk is looked at
isBinaryContent_WholeChunk(data) == Count(data, "nul") > 0

\* isBinaryContent(data): bytes.IndexByte(check, 0) >= 0, check being data
\* cut to 512 bytes
isBinaryContent(data) ==
    LET check == IF Size(data) > probeLen THEN Slice(data, 0, probeLen) ELSE data
    IN  Count(check, "nul") > 0

\* what is at the path: a regular file with its content, that os.Open opens
\* or not, a directory, or nothing that os.Stat finds
RegularWith(data, open) == [stat |-> TRUE, isDir |-> FALSE, open |-> open, data |-> data]

Files ==
    { RegularWith(data, TRUE) : data \in Contents }
    \cup { RegularWith(<<Run("nl", 1)>>, FALSE),
           [stat |-> TRUE, isDir |-> TRUE, open |-> TRUE, data |-> <<Run("x", probeLen)>>],
           NoSuchFile }

\* values of maxSize: less than a buffer, a buffer and a probe, the 10 MB of
\* countLinesCmd
MaxSizes == { probeLen, bufLen + probeLen, 10 * 1024 * 1024 }

\* the n of a call f.Read(buf) at offset off: 0 at the end of the file, else
\* what the buffer takes and the file has left, or less
ReadLens(off) ==
    LET left == Size(lfile.data) - off
        full == minInt(bufLen, left)
    IN  IF left = 0 THEN {0}
        ELSE {full} \cup
             (IF Cardinality({ i \in 1..Len(chunks) : chunks[i] < bufLen }) < MaxShortReads
              THEN { n \in {1, probeLen - 1, probeLen, probeLen + 1} : n < full }
              ELSE {})

\* the err of f.Read returning n
ReadErr(n) == IF n = 0 THEN "EOF" ELSE "nil"

\* (C26 mutant) the size is not compared with maxSize
TooLarge_Never(size, max) == FALSE

\* info.Size() > maxSize
TooLarge(size, max) == size > max

\* (C24 mutant) the file is not read beyond its first chunk
KeepReading_Never(read, max, err) == FALSE

\* the condition of the read loop: totalRead < maxSize && err == nil
KeepReading(read, max, err) == read < max /\ err = "nil"

InitLines ==
    /\ maxEntries = modelCacheEntries
    /\ ll = <<>> /\ items = {} /\ touched = <<>> /\ lastPut = <<>>
    /\ disk = NoFile("absent") /\ now = 0
    /\ op = Op("new", "", "") /\ ret = NoRet
    /\ NoScan
    /\ NoRefresh
    /\ lfile \in Files
    /\ maxSize \in MaxSizes
    /\ lpc = "stat"
    /\ opened = FALSE /\ chunks = <<>> /\ rerr = "nil"
    /\ count = 0 /\ totalRead = 0 /\ lret = <<>>
    /\ NoBatch
    /\ NoUI
    /\ NoMatch

\* os.Stat(path) and the two early returns
LStat ==
    /\ lpc = "stat"
    /\ IF ~lfile.stat THEN lret' = <<0, FALSE, "stat">> /\ lpc' = "returned"
       ELSE IF lfile.isDir \/ Size(lfile.data) = 0
            THEN lret' = <<0, FALSE, "nil">> /\ lpc' = "returned"
       ELSE IF TooLarge(Size(lfile.data), maxSize)
            THEN lret' = <<0, FALSE, "nil">> /\ lpc' = "returned"
       ELSE lpc' = "open" /\ UNCHANGED lret
    /\ UNCHANGED <<lfile, maxSize, opened, chunks, rerr, count, totalRead,
                   vars, scanVars, refreshVars, batchVars, uiVars, matchVars>>

\* os.Open(path)
LOpen ==
    /\ lpc = "open"
    /\ IF ~lfile.open
       THEN lret' = <<0, FALSE, "open">> /\ lpc' = "returned" /\ UNCHANGED opened
       ELSE opened' = TRUE /\ lpc' = "first" /\ UNCHANGED lret
    /\ UNCHANGED <<lfile, maxSize, chunks, rerr, count, totalRead,
                   vars, scanVars, refreshVars, batchVars, uiVars, matchVars>>

\* the first f.Read(buf), the binary check and the count of the first chunk
LFirstRead(n) ==
    /\ lpc = "first"
    /\ LET data == Slice(lfile.data, 0, n)
       IN  IF n > 0 /\ isBinaryContent(data)
           THEN /\ lret' = <<0, TRUE, "nil">> /\ lpc' = "returned"
                /\ UNCHANGED <<count, totalRead>>
           ELSE /\ count' = IF n > 0 THEN Count(data, "nl") ELSE 0
                /\ totalRead' = n
                /\ lpc' = "loop"
                /\ UNCHANGED lret
    /\ chunks' = IF n > 0 THEN Append(chunks, n) ELSE chunks
    /\ rerr' = ReadErr(n)
    /\ UNCHANGED <<lfile, maxSize, opened, vars, scanVars, refreshVars, batchVars, uiVars, matchVars>>

\* one round of the read loop
LRead(n) ==
    /\ lpc = "loop"
    /\ KeepReading(totalRead, maxSize, rerr)
    /\ IF n > 0
       THEN /\ count' = count + Count(Slice(lfile.data, totalRead, n), "nl")
            /\ totalRead' = totalRead + n
            /\ chunks' = Append(chunks, n)
       ELSE UNCHANGED <<count, totalRead, chunks>>
    /\ rerr' = ReadErr(n)
    /\ UNCHANGED <<lfile, maxSize, lpc, opened, lret, vars, scanVars, refreshVars, batchVars, uiVars, matchVars>>

\* the loop is left: return count, false, nil
LReturn ==
    /\ lpc = "loop"
    /\ ~KeepReading(totalRead, maxSize, rerr)
    /\ lret' = <<count, FALSE, "nil">>
    /\ lpc' = "returned"
    /\ UNCHANGED <<lfile, maxSize, opened, chunks, rerr, count, totalRead,
                   vars, scanVars, refreshVars, batchVars, uiVars, matchVars>>

NextLines ==
    \/ LStat
    \/ LOpen
    \/ \E n \in ReadLens(0) : LFirstRead(n)
    \/ \E n \in ReadLens(totalRead) : LRead(n)
    \/ LReturn

SpecLines == InitLines /\ [][NextLines]_<<vars, scanVars, otherVars>>

(* ========================= batch line counting ======================== *)

\* at most MaxBatch entries are counted
MaxBatch == 3

batchLineCountMsg(cs) == [type |-> "batchLineCountMsg", Counts |-> cs]

\* an entry of the argument: the fields IsDir and IsBinary of the FileEntry,
\* and what countLines(path, 10 MB) returns for it: lines and isBin
BatchEntry(isDir, isBinary, lines, isBin) ==
    [Name |-> "", IsDir |-> isDir, IsBinary |-> isBinary, lines |-> lines, isBin |-> isBin]

\* a directory, a file with a binary extension, a text file of two lines, a
\* file without a newline (or empty, or over 10 MB, or unreadable), a file
\* with a zero byte at its start
BatchKinds ==
    { BatchEntry(TRUE, FALSE, 0, FALSE), BatchEntry(FALSE, TRUE, 0, TRUE),
      BatchEntry(FALSE, FALSE, 2, FALSE), BatchEntry(FALSE, FALSE, 0, FALSE),
      BatchEntry(FALSE, FALSE, 0, TRUE) }

BatchLists ==
    UNION { { [i \in 1..n |-> [kinds[i] EXCEPT !.Name = NameAt(i)]] :
                kinds \in [1..n -> BatchKinds] } : n \in 0..MaxBatch }

\* counts[name] = lines
MapSet(m, name, lines) ==
    [n \in DOMAIN m \cup {name} |-> IF n = name THEN lines ELSE m[n]]

\* (C27 mutant) mu.Lock() returns although the mutex is held
CanLock_Held(holders) == TRUE

\* mu.Lock() returns: no goroutine holds the mutex
CanLock(holders) == holders = {}

InitBatch ==
    /\ maxEntries = modelCacheEntries
    /\ ll = <<>> /\ items = {} /\ touched = <<>> /\ lastPut = <<>>
    /\ disk = NoFile("absent") /\ now = 0
    /\ op = Op("new", "", "") /\ ret = NoRet
    /\ fs = [path |-> "", abs |-> FALSE, stat |-> FALSE, isDir |-> FALSE,
             modTime |-> ZeroTime, dir |-> NoDir]
    /\ numCPU \in CPUs
    /\ pc = "idle"
    /\ entries = <<>> /\ fileEntries = <<>> /\ dirEntryIndices = <<>>
    /\ totalSize = 0 /\ totalFiles = 0 /\ totalDirs = 0
    /\ results = <<>> /\ wpc = <<>> /\ sem = 0 /\ wg = 0
    /\ fw = NoWorkers /\ fwg = 0
    /\ msgs = <<>>
    /\ NoRefresh
    /\ NoLines
    /\ bentries \in BatchLists
    /\ bpc = "loop" /\ bi = 0
    /\ bw = [i \in 1..Len(bentries) |-> "none"]
    /\ bsem = 0 /\ bwg = 0 /\ mu = {} /\ counts = EmptyMap /\ bmsgs = <<>>
    /\ NoUI
    /\ NoMatch

\* one round of the loop over entries: continue, or wg.Add(1); go func(name)
BLoop ==
    /\ bpc = "loop"
    /\ bi < Len(bentries)
    /\ bi' = bi + 1
    /\ IF bentries[bi + 1].IsDir \/ bentries[bi + 1].IsBinary
       THEN UNCHANGED <<bw, bwg>>
       ELSE /\ bwg' = bwg + 1
            /\ bw' = [bw EXCEPT ![bi + 1] = "start"]
    /\ UNCHANGED <<bentries, bpc, bsem, mu, counts, bmsgs,
                   vars, scanVars, refreshVars, lineVars, uiVars, matchVars>>

\* goroutine i: sem <- struct{}{}, the channel being of size runtime.NumCPU()
BAcquire(i) ==
    /\ bw[i] = "start"
    /\ CanSend(bsem, numCPU)
    /\ bsem' = bsem + 1
    /\ bw' = [bw EXCEPT ![i] = "holding"]
    /\ UNCHANGED <<bentries, bpc, bi, bwg, mu, counts, bmsgs,
                   vars, scanVars, refreshVars, lineVars, uiVars, matchVars>>

\* goroutine i: countLines(path, 10 MB) and the test !isBin && lines > 0
BCount(i) ==
    /\ bw[i] = "holding"
    /\ bw' = [bw EXCEPT ![i] = IF ~bentries[i].isBin /\ bentries[i].lines > 0
                               THEN "counted" ELSE "stored"]
    /\ UNCHANGED <<bentries, bpc, bi, bsem, bwg, mu, counts, bmsgs,
                   vars, scanVars, refreshVars, lineVars, uiVars, matchVars>>

\* goroutine i: mu.Lock()
BLock(i) ==
    /\ bw[i] = "counted"
    /\ CanLock(mu)
    /\ mu' = mu \cup {i}
    /\ bw' = [bw EXCEPT ![i] = "locked"]
    /\ UNCHANGED <<bentries, bpc, bi, bsem, bwg, counts, bmsgs,
                   vars, scanVars, refreshVars, lineVars, uiVars, matchVars>>

\* goroutine i: counts[name] = lines.  A write while another goroutine is at
\* its write is a data race on the map: the write takes effect, is lost, or
\* the runtime ends the program
BStore(i) ==
    /\ bw[i] = "locked"
    /\ IF mu = {i}
       THEN counts' = MapSet(counts, bentries[i].Name, bentries[i].lines) /\ UNCHANGED bpc
       ELSE \/ counts' = MapSet(counts, bentries[i].Name, bentries[i].lines) /\ UNCHANGED bpc
            \/ UNCHANGED <<counts, bpc>>
            \/ bpc' = "fatal" /\ UNCHANGED counts
    /\ bw' = [bw EXCEPT ![i] = "written"]
    /\ UNCHANGED <<bentries, bi, bsem, bwg, mu, bmsgs,
                   vars, scanVars, refreshVars, lineVars, uiVars, matchVars>>

\* goroutine i: mu.Unlock()
BUnlock(i) ==
    /\ bw[i] = "written"
    /\ mu' = mu \ {i}
    /\ bw' = [bw EXCEPT ![i] = "stored"]
    /\ UNCHANGED <<bentries, bpc, bi, bsem, bwg, counts, bmsgs,
                   vars, scanVars, refreshVars, lineVars, uiVars, matchVars>>

\* goroutine i: the deferred <-sem
BRelease(i) ==
    /\ bw[i] = "stored"
    /\ bsem' = Receive(bsem)
    /\ bw' = [bw EXCEPT ![i] = "released"]
    /\ UNCHANGED <<bentries, bpc, bi, bwg, mu, counts, bmsgs,
                   vars, scanVars, refreshVars, lineVars, uiVars, matchVars>>

\* goroutine i: the deferred wg.Done()
BDone(i) ==
    /\ bw[i] = "released"
    /\ bwg' = bwg - 1
    /\ bw' = [bw EXCEPT ![i] = "done"]
    /\ UNCHANGED <<bentries, bpc, bi, bsem, mu, counts, bmsgs,
                   vars, scanVars, refreshVars, lineVars, uiVars, matchVars>>

\* the loop is over: wg.Wait() and return batchLineCountMsg{Counts: counts}
BReturn ==
    /\ bpc = "loop"
    /\ bi = Len(bentries)
    /\ WaitReturns(bwg)
    /\ bmsgs' = Append(bmsgs, batchLineCountMsg(counts))
    /\ bpc' = "returned"
    /\ UNCHANGED <<bentries, bi, bw, bsem, bwg, mu, counts,
                   vars, scanVars, refreshVars, lineVars, uiVars, matchVars>>

NextBatch ==
    \/ BLoop
    \/ \E i \in 1..Len(bw) : BAcquire(i)
    \/ \E i \in 1..Len(bw) : BCount(i)
    \/ \E i \in 1..Len(bw) : BLock(i)
    \/ \E i \in 1..Len(bw) : BStore(i)
    \/ \E i \in 1..Len(bw) : BUnlock(i)
    \/ \E i \in 1..Len(bw) : BRelease(i)
    \/ \E i \in 1..Len(bw) : BDone(i)
    \/ BReturn

SpecBatch == InitBatch /\ [][NextBatch]_<<vars, scanVars, otherVars>>

(* ------------------- the Model and its Update (model.go) --------------- *)

\* how deep below "/" the user goes
MaxDepth == 2

\* how many ScanProgress objects one run makes (scans and refreshes started)
MaxScans == 2

\* how many scans and refreshes a run starts at most when nothing but scans,
\* refreshes and navigation is followed
MaxNavScans == 3

\* no more than MaxScans scans and refreshes were started
FewScans == Len(progs') <= MaxScans

\* how far a scan raises a counter of its ScanProgress
MaxProgress == 2

\* the names an entry that is a directory can have
UINames == {"a", "b"}

\* filepath.Join(dir, name)
Join(dir, name) == IF dir = "/" THEN "/" \o name ELSE dir \o "/" \o name

RECURSIVE PathsAt(_)
\* the paths d levels below "/"
PathsAt(d) == IF d = 0 THEN {"/"}
              ELSE { Join(p, n) : p \in PathsAt(d - 1), n \in UINames }

UIPaths == UNION { PathsAt(d) : d \in 0..MaxDepth }

Depth(p) == CHOOSE d \in 0..MaxDepth : p \in PathsAt(d)

\* filepath.Dir(p): "/" is its own parent
Dir(p) == IF p = "/" THEN "/"
          ELSE CHOOSE q \in UIPaths : \E n \in UINames : Join(q, n) = p

\* filepath.Base(p)
Base(p) == IF p = "/" THEN "/"
           ELSE CHOOSE n \in UINames : \E q \in UIPaths : Join(q, n) = p

\* an entry that is a directory, with the counts of what lies below it
SubdirEntry(name, size, childFiles, childDirs) ==
    [FileEntry(name, size, TRUE, Time(1, FALSE))
        EXCEPT !.ChildFiles = childFiles, !.ChildDirs = childDirs]

\* the tree on disk: "/" holds directory a and top.go, "/a" holds file.go and
\* directory b, "/a/b" holds a file.go of its own
IsDirPath(p) == p \in {"/", "/a", "/a/b"}

\* what scanDirectory(p, prog) sends for a directory of the tree
ScanOf(p) ==
    IF p = "/"
    THEN scanResultMsg(p, <<SubdirEntry("a", 3, 2, 1),
                            FileEntry("top.go", 1, FALSE, Time(1, FALSE))>>,
                       4, 1, 1, Time(2, FALSE))
    ELSE IF p = "/a"
    THEN scanResultMsg(p, <<FileEntry("file.go", 2, FALSE, Time(1, FALSE)),
                            SubdirEntry("b", 1, 1, 0)>>,
                       3, 1, 1, Time(2, FALSE))
    ELSE scanResultMsg(p, <<FileEntry("file.go", 1, FALSE, Time(1, FALSE))>>,
                       1, 1, 0, Time(2, FALSE))

\* the lines countLines finds in the file name of directory dir; 0 when there
\* is no such file
LinesAt(dir, name) ==
    IF dir = "/" /\ name = "top.go" THEN 3
    ELSE IF dir = "/a" /\ name = "file.go" THEN 2
    ELSE IF dir = "/a/b" /\ name = "file.go" THEN 1
    ELSE 0

\* the directory p exists now: neither it nor a directory above it went to
\* the trash
DirNow(p) ==
    /\ IsDirPath(p)
    /\ \A g \in gone : Join(g[1], g[2]) \notin {p, Dir(p)}

\* what scanDirectory(p, prog) sends now for a directory that exists: the
\* entries that are still there, with their sum and their percentages
ScanNow(p) ==
    LET was == ScanOf(p)
        kept == SelectSeq(was.entries, LAMBDA e : <<p, e.Name>> \notin gone)
        total == SumSizes(kept)
    IN  scanResultMsg(p, WithPercentages(kept, total), total,
                      Len(SelectSeq(kept, LAMBDA e : ~e.IsDir)),
                      Len(SelectSeq(kept, LAMBDA e : e.IsDir)),
                      Time(2 + Cardinality({ g \in gone : g[1] = p }), FALSE))

\* the lines countLines finds now: a file in the trash cannot be opened
LinesNow(dir, name) ==
    IF DirNow(dir) /\ <<dir, name>> \notin gone THEN LinesAt(dir, name) ELSE 0

\* a command that runs: scanDirectory(path, prog), smartRefreshCmd(path,
\* cached, prog) or countLinesCmd(path, name)
Cmd(kind, path, name, prog) ==
    [kind |-> kind, path |-> path, name |-> name, prog |-> prog]

\* m.cursorHistory[path], "" when the map has no such key
MapGet(m, k) == IF k \in DOMAIN m THEN m[k] ELSE ""

\* Model.rememberCursor; the map stays far below maxCursorHistory
rememberCursor(h, path, name) == MapSet(h, path, name)

\* Model.applyFilter with showHidden set, no search text and topMode off: the
\* view filter decides what passes
filterEntries(es, vf) ==
    SelectSeq(es, LAMBDA e : \/ vf = 0
                             \/ vf = 1 /\ e.IsDir
                             \/ vf = 2 /\ ~e.IsDir)

applyFilter(es) == filterEntries(es, viewFilter)

\* the first position (from 0) of the entry called name, dflt when none is
FindName(es, name, dflt) ==
    IF \E i \in 1..Len(es) : es[i].Name = name
    THEN (CHOOSE i \in 1..Len(es) :
             es[i].Name = name /\ \A j \in 1..(i - 1) : es[j].Name # name) - 1
    ELSE dflt

RECURSIVE DeepSum(_, _)
\* the sum of field f over the entries that are directories
DeepSum(es, f) ==
    IF es = <<>> THEN 0
    ELSE (IF es[1].IsDir THEN es[1][f] ELSE 0) + DeepSum(Tail(es), f)

\* the first entry called name gets the line count
SetLineCount(es, name, lines) ==
    LET i == FindName(es, name, -1) + 1
    IN  IF i = 0 THEN es ELSE [es EXCEPT ![i].LineCount = lines]

\* Model.lineCountForSelected
lineCountForSelected(path, fl, cur) ==
    IF Len(fl) = 0 THEN {}
    ELSE LET e == fl[cur + 1]
         IN  IF e.IsDir \/ e.IsBinary \/ e.LineCount > 0 THEN {}
             ELSE {Cmd("lines", path, e.Name, 0)}

\* Model.moveCursor
moveCursor(cur, n, delta) ==
    IF n = 0 THEN cur
    ELSE LET c == cur + delta
         IN  IF c < 0 THEN 0 ELSE IF c >= n THEN n - 1 ELSE c

\* what View shows of the scan progress while loading
ShownProgress ==
    IF mloading /\ (scanProgShown.Files > 0 \/ scanProgShown.Dirs > 0)
    THEN scanProgShown ELSE ZeroProg

\* what the cache, the file system and the other parts do not see of Update
uiFrame == <<maxEntries, disk, now, scanVars, refreshVars, lineVars, batchVars,
            matchVars, viewFilter, gone>>

\* (C38 mutant) the value is stored under the path displayed
CachePut_UnderDisplayed(key, val) ==
    /\ op' = Op("Put", mpath, IF mpath \in items THEN "hit"
                               ELSE IF Len(ll) >= maxEntries THEN "full" ELSE "new")
    /\ LET c == PutC(Cache(ll, items), maxEntries, mpath, val)
       IN  ll' = c.ll /\ items' = c.items
    /\ ret' = NoRet
    /\ touched' = Forget(Touch(touched, mpath), items')
    /\ lastPut' = ForgetPut(Record(lastPut, mpath, val), items')

\* m.cache.Put(key, val) inside Update
CachePut(key, val) ==
    /\ op' = Op("Put", key, IF key \in items THEN "hit"
                             ELSE IF Len(ll) >= maxEntries THEN "full" ELSE "new")
    /\ LET c == PutC(Cache(ll, items), maxEntries, key, val)
       IN  ll' = c.ll /\ items' = c.items
    /\ ret' = NoRet
    /\ touched' = Forget(Touch(touched, key), items')
    /\ lastPut' = ForgetPut(Record(lastPut, key, val), items')

\* m.cache.Get(key) inside Update
CacheGet(key) ==
    /\ op' = Op("Get", key, IF key \in items THEN "hit" ELSE "miss")
    /\ IF key \in items
       THEN /\ ll' = MoveToFront(ll, IndexOf(ll, key))
            /\ ret' = Ret(ll[IndexOf(ll, key)].value, TRUE, "nil")
            /\ touched' = Touch(touched, key)
       ELSE /\ ret' = Ret(ZeroResult, FALSE, "nil")
            /\ UNCHANGED <<ll, touched>>
    /\ UNCHANGED <<items, lastPut>>

\* the value cached under key
Cached(key) == ll[IndexOf(ll, key)].value

\* NewModel(path) and Model.Init: an empty cache (no cache file to load), a
\* first ScanProgress and the scan of path started
InitUI ==
    /\ maxEntries = modelCacheEntries
    /\ ll = <<>>
    /\ items = {}
    /\ disk = NoFile("absent")
    /\ now = 0
    /\ op = Op("new", "", "")
    /\ ret = NoRet
    /\ touched = <<>>
    /\ lastPut = <<>>
    /\ NoScan /\ NoRefresh /\ NoLines /\ NoBatch /\ NoMatch
    /\ mpath \in {"/", "/a", "/a/b"}
    /\ mentries = <<>> /\ mfiltered = <<>>
    /\ mtotalSize = 0 /\ mtotalFiles = 0 /\ mtotalDirs = 0
    /\ deepTotalFiles = 0 /\ deepTotalDirs = 0
    /\ mcursor = 0
    /\ scanProg = 1
    /\ scanProgShown = ZeroProg
    /\ cursorHistory = EmptyMap
    /\ pendingCursorEntry = ""
    /\ mloading = TRUE
    /\ fromCache = FALSE
    /\ merr = "nil"
    /\ entriesOf = ""
    /\ progs = <<ZeroProg>>
    /\ added = <<ZeroProg>>
    /\ cmds = {Cmd("scan", mpath, "", 1)}
    /\ viewFilter = 0
    /\ gone = {}

\* case scanResultMsg: the scan or the refresh c sends its result
ScanResult(c) ==
    /\ c \in cmds /\ c.kind \in {"scan", "refresh"} /\ DirNow(c.path)
    /\ LET msg == ScanNow(c.path)
           fl == applyFilter(msg.entries)
           cur == IF pendingCursorEntry # ""
                  THEN FindName(fl, pendingCursorEntry, 0) ELSE 0
       IN  /\ CachePut(msg.path, msg)
           /\ mloading' = FALSE
           /\ fromCache' = FALSE
           /\ scanProg' = 0
           /\ scanProgShown' = ZeroProg
           /\ mpath' = msg.path
           /\ mentries' = msg.entries
           /\ entriesOf' = msg.path
           /\ mtotalSize' = msg.totalSize
           /\ mtotalFiles' = msg.totalFiles
           /\ mtotalDirs' = msg.totalDirs
           /\ deepTotalFiles' = msg.totalFiles + DeepSum(msg.entries, "ChildFiles")
           /\ deepTotalDirs' = msg.totalDirs + DeepSum(msg.entries, "ChildDirs")
           /\ mfiltered' = fl
           /\ mcursor' = cur
           /\ pendingCursorEntry' = ""
           /\ cmds' = (cmds \ {c})
                      \cup (IF Len(fl) > 0 /\ cur < Len(fl)
                               /\ ~fl[cur + 1].IsDir /\ ~fl[cur + 1].IsBinary
                            THEN {Cmd("lines", msg.path, fl[cur + 1].Name, 0)}
                            ELSE {})
    /\ UNCHANGED <<cursorHistory, merr, progs, added, uiFrame>>

\* (C37 mutant) the up-to-date report is taken without ending the loading
ScanUpToDate_KeepsLoading(c) ==
    /\ c \in cmds /\ c.kind = "refresh" /\ DirNow(c.path)
    /\ cmds' = cmds \ {c}
    /\ UNCHANGED <<mpath, mentries, entriesOf, mfiltered, mtotalSize, mtotalFiles, mtotalDirs,
                   deepTotalFiles, deepTotalDirs, mcursor, scanProg, scanProgShown,
                   cursorHistory, pendingCursorEntry, fromCache, merr, progs, added,
                   mloading, ll, items, op, ret, touched, lastPut, uiFrame>>

\* case scanUpToDateMsg: the refresh c found the directory as it was cached
ScanUpToDate(c) ==
    /\ c \in cmds /\ c.kind = "refresh" /\ DirNow(c.path)
    /\ mloading' = FALSE
    /\ cmds' = cmds \ {c}
    /\ UNCHANGED <<mpath, mentries, entriesOf, mfiltered, mtotalSize, mtotalFiles, mtotalDirs,
                   deepTotalFiles, deepTotalDirs, mcursor, scanProg, scanProgShown,
                   cursorHistory, pendingCursorEntry, fromCache, merr, progs, added,
                   ll, items, op, ret, touched, lastPut, uiFrame>>

\* case scanErrorMsg: the scan or the refresh c failed; a path that is no
\* directory always fails
ScanError(c) ==
    /\ c \in cmds /\ c.kind \in {"scan", "refresh"}
    /\ mloading' = FALSE
    /\ merr' = "scan"
    /\ cmds' = cmds \ {c}
    /\ UNCHANGED <<mpath, mentries, entriesOf, mfiltered, mtotalSize, mtotalFiles, mtotalDirs,
                   deepTotalFiles, deepTotalDirs, mcursor, scanProg, scanProgShown,
                   cursorHistory, pendingCursorEntry, fromCache, progs, added,
                   ll, items, op, ret, touched, lastPut, uiFrame>>

\* case lineCountMsg: countLinesCmd c sends the lines of its file.  m.entries
\* shares its array with the value cached for the directory it came from, so
\* the count written into m.entries shows in that cached value too.
LineCount(c) ==
    /\ c \in cmds /\ c.kind = "lines"
    /\ LET lines == LinesNow(c.path, c.name)
           es == SetLineCount(mentries, c.name, lines)
           from == IF entriesOf \in items THEN {IndexOf(ll, entriesOf)} ELSE {}
           shared == [i \in 1..Len(ll) |->
                        IF i \in from THEN [ll[i] EXCEPT !.value.entries = es]
                        ELSE ll[i]]
       IN  /\ mentries' = es
           /\ mfiltered' = SetLineCount(mfiltered, c.name, lines)
           /\ IF mpath \in items
              THEN LET i == IndexOf(shared, mpath)
                       cached == shared[i].value
                       ces == SetLineCount(cached.entries, c.name, lines)
                   IN  IF \E j \in 1..Len(ces) : ces[j].Name = c.name
                       THEN /\ ll' = [MoveToFront(shared, i)
                                        EXCEPT ![1].value.entries = ces]
                            /\ op' = Op("Put", mpath, "hit")
                            /\ ret' = NoRet
                            /\ lastPut' = Record(lastPut, mpath,
                                                 [cached EXCEPT !.entries = ces])
                       ELSE /\ ll' = MoveToFront(shared, i)
                            /\ op' = Op("Get", mpath, "hit")
                            /\ ret' = Ret(cached, TRUE, "nil")
                            /\ UNCHANGED lastPut
              ELSE /\ ll' = shared
                   /\ op' = Op("Get", mpath, "miss")
                   /\ ret' = Ret(ZeroResult, FALSE, "nil")
                   /\ UNCHANGED lastPut
           /\ touched' = IF mpath \in items THEN Touch(touched, mpath) ELSE touched
    /\ cmds' = cmds \ {c}
    /\ UNCHANGED <<mpath, mtotalSize, mtotalFiles, mtotalDirs, deepTotalFiles,
                   deepTotalDirs, mcursor, scanProg, scanProgShown, cursorHistory,
                   pendingCursorEntry, mloading, fromCache, merr, progs, added,
                   entriesOf, items,
                   uiFrame>>

\* case spinner.TickMsg while loading: the counters of the ScanProgress are
\* read for display
SpinnerTick ==
    /\ mloading
    /\ scanProgShown' = IF scanProg # 0 THEN progs[scanProg] ELSE scanProgShown
    /\ UNCHANGED <<mpath, mentries, entriesOf, mfiltered, mtotalSize, mtotalFiles, mtotalDirs,
                   deepTotalFiles, deepTotalDirs, mcursor, scanProg,
                   cursorHistory, pendingCursorEntry, mloading, fromCache, merr,
                   progs, added, cmds, ll, items, op, ret, touched, lastPut, uiFrame>>

\* a new ScanProgress is made and the scan or refresh of path is started
StartScan(kind, path) ==
    /\ Len(progs) < MaxNavScans
    /\ progs' = Append(progs, ZeroProg)
    /\ added' = Append(added, ZeroProg)
    /\ scanProg' = Len(progs) + 1
    /\ mloading' = TRUE
    /\ cmds' = cmds \cup {Cmd(kind, path, "", Len(progs) + 1)}

\* key Refresh
KeyRefresh ==
    /\ merr' = "nil"
    /\ CacheGet(mpath)
    /\ StartScan(IF mpath \in items THEN "refresh" ELSE "scan", mpath)
    /\ UNCHANGED <<mpath, mentries, entriesOf, mfiltered, mtotalSize, mtotalFiles, mtotalDirs,
                   deepTotalFiles, deepTotalDirs, mcursor, scanProgShown,
                   cursorHistory, pendingCursorEntry, fromCache, uiFrame>>

\* the cached value of target is displayed, the cursor on the entry called
\* name when there is one
ShowCached(target, name) ==
    LET cached == Cached(target)
        fl == applyFilter(cached.entries)
        cur == IF name # "" THEN FindName(fl, name, 0) ELSE 0
    IN  /\ mloading' = FALSE
        /\ fromCache' = TRUE
        /\ mentries' = cached.entries
        /\ entriesOf' = target
        /\ mtotalSize' = cached.totalSize
        /\ mtotalFiles' = cached.totalFiles
        /\ mtotalDirs' = cached.totalDirs
        /\ deepTotalFiles' = cached.totalFiles + DeepSum(cached.entries, "ChildFiles")
        /\ deepTotalDirs' = cached.totalDirs + DeepSum(cached.entries, "ChildDirs")
        /\ mfiltered' = fl
        /\ mcursor' = cur
        /\ cmds' = cmds \cup lineCountForSelected(target, fl, cur)
        /\ UNCHANGED <<scanProg, progs, added, pendingCursorEntry>>

\* the display is left as it is for the scan to fill
LeaveDisplay ==
    UNCHANGED <<mentries, entriesOf, mfiltered, mtotalSize, mtotalFiles, mtotalDirs,
                deepTotalFiles, deepTotalDirs, mcursor, fromCache>>

\* key Left: Model.navigateUp
KeyLeft ==
    LET parent == Dir(mpath)
        childName == Base(mpath)
    IN  /\ parent # mpath
        /\ cursorHistory' = IF Len(mfiltered) > 0 /\ mcursor < Len(mfiltered)
                            THEN rememberCursor(cursorHistory, mpath,
                                                mfiltered[mcursor + 1].Name)
                            ELSE cursorHistory
        /\ mpath' = parent
        /\ merr' = "nil"
        /\ CacheGet(parent)
        /\ IF parent \in items
           THEN ShowCached(parent, childName)
           ELSE /\ pendingCursorEntry' = childName
                /\ StartScan("scan", parent)
                /\ LeaveDisplay
        /\ UNCHANGED <<scanProgShown, uiFrame>>

\* key Right on a directory: Model.navigateIn
KeyRight ==
    /\ Len(mfiltered) > 0
    /\ mfiltered[mcursor + 1].IsDir
    /\ Depth(mpath) < MaxDepth
    /\ LET entry == mfiltered[mcursor + 1]
           target == Join(mpath, entry.Name)
           history == rememberCursor(cursorHistory, mpath, entry.Name)
           pendingEntry == MapGet(history, target)
       IN  /\ cursorHistory' = history
           /\ mpath' = target
           /\ merr' = "nil"
           /\ CacheGet(target)
           /\ IF target \in items
              THEN ShowCached(target, pendingEntry)
              ELSE /\ pendingCursorEntry' = IF pendingEntry # "" THEN pendingEntry
                                            ELSE pendingCursorEntry
                   /\ StartScan("scan", target)
                   /\ LeaveDisplay
    /\ UNCHANGED <<scanProgShown, uiFrame>>

\* keys Up and Down: Model.moveCursor and the line count of the selection
KeyMove(delta) ==
    /\ mcursor' = moveCursor(mcursor, Len(mfiltered), delta)
    /\ mcursor' # mcursor
    /\ cmds' = cmds \cup lineCountForSelected(mpath, mfiltered, mcursor')
    /\ UNCHANGED <<mpath, mentries, entriesOf, mfiltered, mtotalSize, mtotalFiles, mtotalDirs,
                   deepTotalFiles, deepTotalDirs, scanProg, scanProgShown,
                   cursorHistory, pendingCursorEntry, mloading, fromCache, merr,
                   progs, added, ll, items, op, ret, touched, lastPut, uiFrame>>

\* (C29 mutant) the increment is stored over the counter: what was added
\* before is lost
AddProgress_Stored(p, f, n) == [p EXCEPT ![f] = n]

\* ScanProgress.Files.Add, Dirs.Add and Size.Add by the scanner that runs c
AddProgress(p, f, n) == [p EXCEPT ![f] = @ + n]

\* the scan or refresh c comes by a file, or by a directory, and counts it
Progress(c, f) ==
    /\ c \in cmds /\ c.prog # 0
    /\ progs[c.prog][f] < MaxProgress
    /\ progs' = [progs EXCEPT ![c.prog] =
                    IF f = "Files"
                    THEN AddProgress(AddProgress(@, "Files", 1), "Size", 1)
                    ELSE AddProgress(@, "Dirs", 1)]
    /\ added' = [added EXCEPT ![c.prog] =
                    IF f = "Files"
                    THEN [@ EXCEPT !.Files = @ + 1, !.Size = @ + 1]
                    ELSE [@ EXCEPT !.Dirs = @ + 1]]
    /\ UNCHANGED <<mpath, mentries, entriesOf, mfiltered, mtotalSize, mtotalFiles, mtotalDirs,
                   deepTotalFiles, deepTotalDirs, mcursor, scanProg, scanProgShown,
                   cursorHistory, pendingCursorEntry, mloading, fromCache, merr,
                   cmds, ll, items, op, ret, touched, lastPut, uiFrame>>

NextUI ==
    \/ \E c \in cmds : ScanResult(c)
    \/ \E c \in cmds : ScanUpToDate(c)
    \/ \E c \in cmds : ScanError(c)
    \/ \E c \in cmds : LineCount(c)
    \/ SpinnerTick
    \/ KeyRefresh /\ FewScans
    \/ KeyLeft /\ FewScans
    \/ KeyRight /\ FewScans
    \/ \E delta \in {-1, 1} : KeyMove(delta)
    \/ \E c \in cmds, f \in {"Files", "Dirs"} : Progress(c, f)

SpecUI == InitUI /\ [][NextUI]_<<vars, scanVars, otherVars>>

(* ------------- trash, batch line counts and the view filter ------------ *)

\* how many entries one run moves to the trash
MaxTrash == 1

\* how many countAllLinesCmd run at a time
MaxCounts == 1

\* trashCmd(filepath.Join(path, e.Name), e.Name, e.Size, e.IsDir)
TrashCmd(path, e) ==
    [kind |-> "trash", path |-> path, name |-> e.Name, prog |-> 0,
     size |-> e.Size, isDir |-> e.IsDir]

\* countAllLinesCmd(es, path): the names of the entries it does not skip
BatchCmd(path, es) ==
    [kind |-> "batch", path |-> path, name |-> "", prog |-> 0,
     names |-> { es[i].Name : i \in { j \in 1..Len(es) :
                                        ~es[j].IsDir /\ ~es[j].IsBinary } }]

\* the entry called name is in the directory dir now
EntryNow(dir, name) ==
    /\ DirNow(dir)
    /\ \E i \in 1..Len(ScanNow(dir).entries) : ScanNow(dir).entries[i].Name = name

\* append(es[:i], es[i+1:]...) for the first entry called name
RemoveNamed(es, name) ==
    LET i == FindName(es, name, -1) + 1
    IN  IF i = 0 THEN es ELSE SubSeq(es, 1, i - 1) \o SubSeq(es, i + 1, Len(es))

\* "Recompute percentages"
Recomputed(es, total) ==
    [i \in 1..Len(es) |->
        [es[i] EXCEPT !.Percentage = IF total > 0 THEN Percent(es[i].Size, total) ELSE 0]]

\* what the array behind a slice of length n holds once the slice over its
\* first Len(es) places was rewritten to es: the places behind keep what was
\* there
Behind(old, es) == es \o SubSeq(old, Len(es) + 1, Len(old))

\* the list ll with the array that m.entries shares rewritten to es
Shared(es) ==
    [i \in 1..Len(ll) |->
        IF ll[i].key = entriesOf /\ entriesOf \in items
        THEN [ll[i] EXCEPT !.value.entries = Behind(@, es)]
        ELSE ll[i]]

\* key Delete: the selected entry is sent to the trash
KeyDelete ==
    /\ Len(mfiltered) > 0
    /\ Cardinality(gone) + Cardinality({ c \in cmds : c.kind = "trash" }) < MaxTrash
    /\ cmds' = cmds \cup {TrashCmd(mpath, mfiltered[mcursor + 1])}
    /\ UNCHANGED <<mpath, mentries, entriesOf, mfiltered, mtotalSize, mtotalFiles,
                   mtotalDirs, deepTotalFiles, deepTotalDirs, mcursor, scanProg,
                   scanProgShown, cursorHistory, pendingCursorEntry, mloading,
                   fromCache, merr, progs, added, ll, items, op, ret, touched,
                   lastPut, uiFrame>>

\* (C34 mutant) the cursor is not raised to 0 when nothing is left
clampCursor_Below(cur, n) == IF cur >= n THEN n - 1 ELSE cur

\* "Adjust cursor" after the removal: the last entry when the cursor is past
\* it, 0 when that is below 0
clampCursor(cur, n) ==
    LET c == IF cur >= n THEN n - 1 ELSE cur
    IN  IF c < 0 THEN 0 ELSE c

\* case trashResultMsg with no error: trashCmd c moved its entry to the trash
TrashResult(c) ==
    /\ c \in cmds /\ c.kind = "trash" /\ EntryNow(c.path, c.name)
    /\ gone' = gone \cup {<<c.path, c.name>>}
    /\ merr' = "nil"
    /\ LET total == IF mtotalSize - c.size < 0 THEN 0 ELSE mtotalSize - c.size
           es == Recomputed(RemoveNamed(mentries, c.name), total)
           fl == applyFilter(es)
           cur == clampCursor(mcursor, Len(fl))
           shared == Cache(Shared(es), items)
           deleted == DeleteC(shared, mpath)
       IN  /\ mentries' = es
           /\ mtotalSize' = total
           /\ mtotalDirs' = IF c.isDir THEN mtotalDirs - 1 ELSE mtotalDirs
           /\ mtotalFiles' = IF c.isDir THEN mtotalFiles ELSE mtotalFiles - 1
           /\ deepTotalFiles' = mtotalFiles' + DeepSum(es, "ChildFiles")
           /\ deepTotalDirs' = mtotalDirs' + DeepSum(es, "ChildDirs")
           /\ mfiltered' = fl
           /\ mcursor' = cur
           /\ op' = Op("Delete", mpath, IF mpath \in items THEN "hit" ELSE "miss")
           /\ ll' = deleted.ll /\ items' = deleted.items
           /\ ret' = NoRet
           /\ touched' = Forget(touched, items')
           /\ lastPut' = ForgetPut(lastPut, items')
           /\ cmds' = (cmds \ {c}) \cup lineCountForSelected(mpath, fl, cur)
    /\ UNCHANGED <<mpath, entriesOf, scanProg, scanProgShown, cursorHistory,
                   pendingCursorEntry, mloading, fromCache, progs, added,
                   maxEntries, disk, now, scanVars, refreshVars, lineVars,
                   batchVars, matchVars, viewFilter>>

\* case trashResultMsg with an error: trashCmd c failed
TrashError(c) ==
    /\ c \in cmds /\ c.kind = "trash"
    /\ merr' = "trash"
    /\ cmds' = cmds \ {c}
    /\ UNCHANGED <<mpath, mentries, entriesOf, mfiltered, mtotalSize, mtotalFiles,
                   mtotalDirs, deepTotalFiles, deepTotalDirs, mcursor, scanProg,
                   scanProgShown, cursorHistory, pendingCursorEntry, mloading,
                   fromCache, progs, added, ll, items, op, ret, touched,
                   lastPut, uiFrame>>

\* key CountAll: the lines of every entry shown are counted
KeyCountAll ==
    /\ Cardinality({ c \in cmds : c.kind = "batch" }) < MaxCounts
    /\ cmds' = cmds \cup {BatchCmd(mpath, mfiltered)}
    /\ UNCHANGED <<mpath, mentries, entriesOf, mfiltered, mtotalSize, mtotalFiles,
                   mtotalDirs, deepTotalFiles, deepTotalDirs, mcursor, scanProg,
                   scanProgShown, cursorHistory, pendingCursorEntry, mloading,
                   fromCache, merr, progs, added, ll, items, op, ret, touched,
                   lastPut, uiFrame>>

\* the Counts of the batchLineCountMsg of c: the files among its names that
\* have lines
CountsOf(c) ==
    [n \in { x \in c.names : LinesNow(c.path, x) > 0 } |-> LinesNow(c.path, n)]

\* every entry whose name is a key of counts gets its count
SetLineCounts(es, cs) ==
    [i \in 1..Len(es) |->
        IF es[i].Name \in DOMAIN cs
        THEN [es[i] EXCEPT !.LineCount = cs[es[i].Name]] ELSE es[i]]

\* case batchLineCountMsg: countAllLinesCmd c sends its counts
BatchLineCount(c) ==
    /\ c \in cmds /\ c.kind = "batch"
    /\ LET cs == CountsOf(c)
           es == SetLineCounts(mentries, cs)
           shared == Shared(es)
       IN  /\ mentries' = es
           /\ mfiltered' = SetLineCounts(mfiltered, cs)
           /\ IF mpath \in items
              THEN LET i == IndexOf(shared, mpath)
                       cached == [shared[i].value EXCEPT
                                    !.entries = SetLineCounts(@, cs)]
                   IN  /\ ll' = [MoveToFront(shared, i) EXCEPT ![1].value = cached]
                       /\ op' = Op("Put", mpath, "hit")
                       /\ ret' = NoRet
                       /\ lastPut' = Record(lastPut, mpath, cached)
                       /\ touched' = Touch(touched, mpath)
              ELSE /\ ll' = shared
                   /\ op' = Op("Get", mpath, "miss")
                   /\ ret' = Ret(ZeroResult, FALSE, "nil")
                   /\ UNCHANGED <<lastPut, touched>>
    /\ cmds' = cmds \ {c}
    /\ UNCHANGED <<mpath, mtotalSize, mtotalFiles, mtotalDirs, deepTotalFiles,
                   deepTotalDirs, mcursor, scanProg, scanProgShown, cursorHistory,
                   pendingCursorEntry, mloading, fromCache, merr, progs, added,
                   entriesOf, items, uiFrame>>

\* key DirOnly: all, directories only, files only, all
KeyDirOnly ==
    /\ viewFilter' = (viewFilter + 1) % 3
    /\ mfiltered' = filterEntries(mentries, viewFilter')
    /\ mcursor' = 0
    /\ UNCHANGED <<mpath, mentries, entriesOf, mtotalSize, mtotalFiles,
                   mtotalDirs, deepTotalFiles, deepTotalDirs, scanProg,
                   scanProgShown, cursorHistory, pendingCursorEntry, mloading,
                   fromCache, merr, progs, added, cmds, ll, items, op, ret,
                   touched, lastPut, maxEntries, disk, now, scanVars, refreshVars,
                   lineVars, batchVars, matchVars, gone>>

\* keys Top and Bottom
KeyEdge(bottom) ==
    /\ mcursor' = IF bottom
                  THEN (IF Len(mfiltered) > 0 THEN Len(mfiltered) - 1 ELSE mcursor)
                  ELSE 0
    /\ mcursor' # mcursor
    /\ cmds' = cmds \cup lineCountForSelected(mpath, mfiltered, mcursor')
    /\ UNCHANGED <<mpath, mentries, entriesOf, mfiltered, mtotalSize, mtotalFiles,
                   mtotalDirs, deepTotalFiles, deepTotalDirs, scanProg,
                   scanProgShown, cursorHistory, pendingCursorEntry, mloading,
                   fromCache, merr, progs, added, ll, items, op, ret, touched,
                   lastPut, uiFrame>>

\* Update with every message and key above but the view filter; the scanners
\* report no progress
NextModel ==
    \/ \E c \in cmds : ScanResult(c)
    \/ \E c \in cmds : ScanUpToDate(c)
    \/ \E c \in cmds : ScanError(c)
    \/ \E c \in cmds : LineCount(c)
    \/ \E c \in cmds : TrashResult(c)
    \/ \E c \in cmds : TrashError(c)
    \/ \E c \in cmds : BatchLineCount(c)
    \/ SpinnerTick
    \/ KeyRefresh /\ FewScans
    \/ KeyLeft /\ FewScans
    \/ KeyRight /\ FewScans
    \/ \E delta \in {-1, 1} : KeyMove(delta)
    \/ \E bottom \in BOOLEAN : KeyEdge(bottom)
    \/ KeyDelete
    \/ KeyCountAll

SpecModel == InitUI /\ [][NextModel]_<<vars, scanVars, otherVars>>

\* Update with the view filter changing; no batch line count is asked for
NextView ==
    \/ \E c \in cmds : ScanResult(c)
    \/ \E c \in cmds : ScanUpToDate(c)
    \/ \E c \in cmds : ScanError(c)
    \/ \E c \in cmds : LineCount(c)
    \/ \E c \in cmds : TrashResult(c)
    \/ \E c \in cmds : TrashError(c)
    \/ SpinnerTick
    \/ KeyRefresh /\ FewScans
    \/ KeyLeft /\ FewScans
    \/ KeyRight /\ FewScans
    \/ \E delta \in {-1, 1} : KeyMove(delta)
    \/ \E bottom \in BOOLEAN : KeyEdge(bottom)
    \/ KeyDelete
    \/ KeyDirOnly

SpecView == InitUI /\ [][NextView]_<<vars, scanVars, otherVars>>

\* Update with scans, refreshes and navigation only: the keys Refresh, Left
\* and Right and the messages of the scanner
NextNav ==
    \/ \E c \in cmds : ScanResult(c)
    \/ \E c \in cmds : ScanUpToDate(c)
    \/ \E c \in cmds : ScanError(c)
    \/ KeyRefresh
    \/ KeyLeft
    \/ KeyRight

SpecNav == InitUI /\ [][NextNav]_<<vars, scanVars, otherVars>>

\* the one message of the scan or refresh c is delivered to Update
Deliver(c) == ScanResult(c) \/ ScanUpToDate(c) \/ ScanError(c)

\* a scan ends (the scanner terminates) and the runtime hands the message a
\* command returns to Update: a message that can be delivered is delivered
SpecNavFair ==
    SpecNav /\ WF_<<vars, scanVars, otherVars>>(\E c \in cmds : Deliver(c))

(* --------------------------- fuzzyMatch (entry.go) --------------------- *)

\* how long a name or a pattern is at most
MaxNameLen == 3

\* the bytes names and patterns are made of: 'A', 'B', 'a', 'b' and '_'
Chars == {65, 66, 97, 98, 95}

Strings == UNION { [1..n -> Chars] : n \in 0..MaxNameLen }

\* if c >= 'A' && c <= 'Z' { c += 32 }
Lower(c) == IF c >= 65 /\ c <= 90 THEN c + 32 ELSE c

\* nc != pc after both were lowered
SameByte(nc, pch) == Lower(nc) = Lower(pch)

\* fuzzyMatch(name, pattern): the pattern is looked for at every offset i of
\* the name, byte after byte
fuzzyMatch(name, pattern) ==
    LET nl == Len(name)
        pl == Len(pattern)
    IN  IF pl > nl THEN FALSE
        ELSE \E i \in 0..(nl - pl) :
                \A j \in 0..(pl - 1) : SameByte(name[i + j + 1], pattern[j + 1])

InitMatch ==
    /\ maxEntries = modelCacheEntries
    /\ ll = <<>> /\ items = {} /\ touched = <<>> /\ lastPut = <<>>
    /\ disk = NoFile("absent") /\ now = 0
    /\ op = Op("new", "", "") /\ ret = NoRet
    /\ NoScan /\ NoRefresh /\ NoLines /\ NoBatch /\ NoUI
    /\ fname \in Strings
    /\ fpattern \in Strings
    /\ fret = <<>>

\* the call returns
Match ==
    /\ fret = <<>>
    /\ fret' = <<fuzzyMatch(fname, fpattern)>>
    /\ UNCHANGED <<fname, fpattern, vars, scanVars, refreshVars, lineVars,
                   batchVars, uiVars>>

NextMatch == Match

SpecMatch == InitMatch /\ [][NextMatch]_<<vars, scanVars, otherVars>>

(* ========================= properties of the scanner ================== *)

\* the scan has returned a scanResultMsg
Succeeded == pc = "returned" /\ msgs # <<>> /\ msgs[1].type = "scanResultMsg"

\* the entries of the returned result
Returned == msgs[1].result.entries

\* the immediate children of the scanned directory that are directories: real
\* ones and symlinks that lead to one
IsSubdir(i) ==
    LET c == fs.dir.list[i]
    IN  c.typ = "dir" \/ (c.typ = "symlink" /\ c.target = "dir")

Children == 1..Len(fs.dir.list)

\* the place of the child of that name in the directory listing
ListPos(name) == CHOOSE i \in Children : fs.dir.list[i].Name = name

\* C13: a successful scan of a directory with F immediate files and D
\* immediate subdirectories has totalFiles = F, totalDirs = D and F + D entries,
\* one for each immediate child.
C13_CountsChildren ==
    Succeeded =>
        LET D == Cardinality({ i \in Children : IsSubdir(i) })
            F == Cardinality({ i \in Children : ~IsSubdir(i) })
        IN  /\ msgs[1].result.totalFiles = F
            /\ msgs[1].result.totalDirs = D
            /\ Len(Returned) = F + D
            /\ \A i \in Children :
                 Cardinality({ j \in 1..Len(Returned) :
                                 Returned[j].Name = fs.dir.list[i].Name }) = 1
            /\ \A j \in 1..Len(Returned) :
                 Returned[j].IsDir = IsSubdir(ListPos(Returned[j].Name))

\* C13 witness: a directory holding a file, a symlink to a directory and a
\* directory was scanned: one file, two directories, three entries.
C13_Witness ==
    /\ Succeeded
    /\ Len(fs.dir.list) = 3
    /\ fs.dir.list[1].typ = "file"
    /\ fs.dir.list[2].typ = "symlink" /\ fs.dir.list[2].target = "dir"
    /\ fs.dir.list[3].typ = "dir"
    /\ msgs[1].result.totalFiles = 1
    /\ msgs[1].result.totalDirs = 2
    /\ Len(Returned) = 3

\* C14: in a scan result the total size is the sum of the entries' sizes, each
\* percentage is 100 * size / totalSize, and every percentage is 0 when the
\* total is 0.
C14_TotalAndPercentages ==
    Succeeded =>
        LET total == msgs[1].result.totalSize
        IN  /\ total = SumSizes(Returned)
            /\ \A j \in 1..Len(Returned) :
                 Returned[j].Percentage =
                     IF total = 0 THEN 0 ELSE (100 * Returned[j].Size) \div total

\* C14 witness: a directory of 8 bytes and a file of 5 were scanned: the total
\* is 13, the shares are 61 and 38 percent.
C14_Witness ==
    /\ Succeeded
    /\ msgs[1].result.totalSize = 13
    /\ Len(Returned) = 2
    /\ Returned[1].IsDir /\ Returned[1].Size = 8 /\ Returned[1].Percentage = 61
    /\ ~Returned[2].IsDir /\ Returned[2].Size = 5 /\ Returned[2].Percentage = 38

\* the paths below a directory: sequences of places in the listings, at most
\* three levels deep
Places == 1..3

Paths == UNION { [1..n -> Places] : n \in 1..3 }

\* the entry at path q below directory d exists
RECURSIVE Exists(_, _)
Exists(d, q) ==
    /\ q[1] <= Len(d.list)
    /\ Len(q) > 1 => /\ d.list[q[1]].typ = "dir"
                     /\ Exists(d.list[q[1]].dir, Tail(q))

\* the entry at path q below directory d
RECURSIVE EntryAt(_, _)
EntryAt(d, q) ==
    IF Len(q) = 1 THEN d.list[q[1]] ELSE EntryAt(d.list[q[1]].dir, Tail(q))

\* every directory on the way to the entry at path q, d included, can be listed
RECURSIVE Listable(_, _)
Listable(d, q) ==
    /\ d.ok
    /\ Len(q) > 1 => Listable(d.list[q[1]].dir, Tail(q))

\* the sum of w[q] over the paths q of qs
RECURSIVE SumOver(_, _)
SumOver(qs, w) ==
    IF qs = {} THEN 0
    ELSE LET q == CHOOSE x \in qs : TRUE
         IN  w[q] + SumOver(qs \ {q}, w)

\* the files and the directories nested below directory d at any depth
FilesBelow(d) == { q \in Paths : Exists(d, q) /\ EntryAt(d, q).typ # "dir" }

DirsBelow(d) == { q \in Paths : Exists(d, q) /\ EntryAt(d, q).typ = "dir" }

\* the directory of the immediate child with that name
SubdirNamed(name) == fs.dir.list[ListPos(name)].dir

\* C15 as stated: the entry of an immediate subdirectory has the summed size of
\* all files nested beneath it, their number as child file count, and the
\* number of nested directories as child directory count.
C15_AggregatesAllNested ==
    Succeeded =>
        \A j \in 1..Len(Returned) :
            Returned[j].IsDir =>
                LET d == SubdirNamed(Returned[j].Name)
                IN  /\ Returned[j].Size = SumOver(FilesBelow(d), [q \in FilesBelow(d) |-> EntryAt(d, q).size])
                    /\ Returned[j].ChildFiles = Cardinality(FilesBelow(d))
                    /\ Returned[j].ChildDirs = Cardinality(DirsBelow(d))

\* C15 amended: .. of the files beneath it that the scan gets to: nothing
\* below a directory that cannot be listed is counted (the directory itself
\* is), and a file whose metadata cannot be read counts as a file of size 0.
C15_AggregatesReachable ==
    Succeeded =>
        \A j \in 1..Len(Returned) :
            Returned[j].IsDir =>
                LET d == SubdirNamed(Returned[j].Name)
                    files == { q \in FilesBelow(d) : Listable(d, q) }
                    dirs == { q \in DirsBelow(d) : Listable(d, q) }
                IN  /\ Returned[j].Size =
                         SumOver(files, [q \in files |->
                                            IF EntryAt(d, q).info THEN EntryAt(d, q).size ELSE 0])
                    /\ Returned[j].ChildFiles = Cardinality(files)
                    /\ Returned[j].ChildDirs = Cardinality(dirs)

\* C15 witness: the scanned directory holds the directory with files of 1, 2
\* and 5 bytes on three levels, and the one with an unlistable directory in it.
C15_Witness ==
    /\ Succeeded
    /\ Len(Returned) = 2
    /\ Returned[1].IsDir /\ Returned[1].Size = 8
    /\ Returned[1].ChildFiles = 3 /\ Returned[1].ChildDirs = 2
    /\ Returned[2].IsDir /\ Returned[2].Size = 1
    /\ Returned[2].ChildFiles = 2 /\ Returned[2].ChildDirs = 1

Holders == { ri \in 1..Len(wpc) : wpc[ri] \in {"holding", "computed"} }

\* C17: at every moment of a scan at most min(NumCPU, 16) subdirectory
\* goroutines hold a pool slot, and a goroutine that has completed holds none.
C17_PoolBounded ==
    /\ Cardinality(Holders) <= (IF numCPU < 16 THEN numCPU ELSE 16)
    /\ sem = Cardinality(Holders)
    /\ pc = "returned" => sem = 0

\* C17 witness: three subdirectories on two processors: two goroutines hold a
\* slot and the third waits for one.
C17_Witness ==
    /\ numCPU = 2
    /\ Len(wpc) = 3
    /\ Cardinality(Holders) = 2
    /\ \E ri \in 1..3 : wpc[ri] = "start"

\* C18: a scan that was started comes to its end: every goroutine gets a
\* slot, finishes and gives it back, both barriers are passed, and the command
\* returns exactly one message, a result or an error.
C18_ScanTerminates ==
    /\ [](Len(msgs) <= 1)
    /\ <>[](/\ pc = "returned"
            /\ Len(msgs) = 1
            /\ msgs[1].type \in {"scanResultMsg", "scanErrorMsg"}
            /\ Len(wpc) = Len(dirEntryIndices)
            /\ \A ri \in 1..Len(wpc) : wpc[ri] = "done"
            /\ sem = 0 /\ wg = 0 /\ fwg = 0
            /\ fw.start = 0 /\ fw.holding = 0 /\ fw.computed = 0 /\ fw.released = 0)

\* C18 witness: the scan of a directory with three subdirectories has
\* returned on a single processor.
C18_Witness ==
    /\ pc = "returned"
    /\ numCPU = 1
    /\ Len(wpc) = 3
    /\ \A ri \in 1..3 : wpc[ri] = "done"
    /\ Len(msgs) = 1

\* C19 as stated: the entries of a result are in descending order of size,
\* entries of equal size in the order of the directory listing.
C19_TiesInListingOrder ==
    Succeeded =>
        \A i, j \in 1..Len(Returned) :
            i < j => /\ Returned[i].Size >= Returned[j].Size
                     /\ Returned[i].Size = Returned[j].Size
                          => ListPos(Returned[i].Name) < ListPos(Returned[j].Name)

\* C19 amended: .. entries of equal size in the order the scan collected them:
\* directories before files, directories among themselves and files among
\* themselves in the order of the directory listing.
C19_TiesInCollectionOrder ==
    Succeeded =>
        \A i, j \in 1..Len(Returned) :
            i < j => /\ Returned[i].Size >= Returned[j].Size
                     /\ Returned[i].Size = Returned[j].Size
                          => \/ Returned[i].IsDir /\ ~Returned[j].IsDir
                             \/ /\ Returned[i].IsDir = Returned[j].IsDir
                                /\ ListPos(Returned[i].Name) < ListPos(Returned[j].Name)

\* C19 witness: the listing is a file without size, an empty directory and
\* again a file without size: the result has the directory first and the
\* files in their order.
C19_Witness ==
    /\ Succeeded
    /\ Len(Returned) = 3
    /\ \A j \in 1..3 : Returned[j].Size = 0
    /\ Returned[1].IsDir /\ ListPos(Returned[1].Name) = 2
    /\ ~Returned[2].IsDir /\ ListPos(Returned[2].Name) = 1
    /\ ~Returned[3].IsDir /\ ListPos(Returned[3].Name) = 3

\* the scanned path cannot be made absolute, cannot be stat'd, is no
\* directory or cannot be listed
RootUnusable == ~fs.abs \/ ~fs.stat \/ ~fs.isDir \/ ~fs.dir.ok

\* C20: the scan of a path that cannot be made absolute, cannot be stat'd, is
\* no directory or cannot be listed returns a scan error and nothing else: no
\* entry is collected, no total counted, no goroutine started.
C20_RootErrorOnly ==
    (RootUnusable /\ pc # "idle") =>
        /\ pc = "returned" => /\ Len(msgs) = 1
                              /\ msgs[1].type = "scanErrorMsg"
                              /\ DOMAIN msgs[1] = {"type", "err"}
        /\ pc # "returned" => pc = "list" /\ msgs = <<>>
        /\ entries = <<>> /\ fileEntries = <<>>
        /\ totalSize = 0 /\ totalFiles = 0 /\ totalDirs = 0
        /\ wpc = <<>> /\ fw = NoWorkers

\* C20 witness: the scan of a directory that os.ReadDir fails on after one
\* entry has returned the error.
C20_Witness ==
    /\ pc = "returned"
    /\ fs.abs /\ fs.stat /\ fs.isDir /\ ~fs.dir.ok
    /\ Len(fs.dir.list) = 1
    /\ msgs = <<scanErrorMsg("readdir")>>

\* goroutine ri has stored its result
Computed(ri) == ri <= Len(wpc) /\ wpc[ri] \in {"computed", "released", "done"}

\* the directory goroutine ri aggregates
DirOf(ri) == ChildNamed(dirEntryIndices[ri].name).dir

\* the entries below directory d that dirSizeRecursive gets to
Reached(d) == { q \in Paths : Exists(d, q) /\ Listable(d, q) }

\* the entry at path q below d cannot be read: a file whose Info() fails, a
\* directory that cannot be listed
Unreadable(d, q) ==
    LET e == EntryAt(d, q)
    IN  IF e.typ = "dir" THEN ~e.dir.ok ELSE ~e.info

\* C21 as stated: in the aggregate of a subdirectory an entry that cannot be
\* read or stat'd adds nothing to the size, to the file count and to the
\* directory count; the other entries are aggregated, and the scan returns a
\* result, no error.
C21_UnreadableAddsNothing ==
    /\ \A ri \in 1..Len(dirEntryIndices) :
         Computed(ri) =>
             LET d == DirOf(ri)
                 rd == { q \in Reached(d) : ~Unreadable(d, q) }
                 files == { q \in rd : EntryAt(d, q).typ # "dir" }
                 dirs == { q \in rd : EntryAt(d, q).typ = "dir" }
             IN  /\ results[ri].size = SumOver(files, [q \in files |-> EntryAt(d, q).size])
                 /\ results[ri].childFiles = Cardinality(files)
                 /\ results[ri].childDirs = Cardinality(dirs)
    /\ (pc = "returned" /\ ~RootUnusable) => Succeeded

\* C21 amended: .. adds nothing to the size, and nothing below a directory
\* that cannot be listed is counted; the entry itself is counted, a file that
\* cannot be stat'd as one file, a directory that cannot be listed as one
\* directory.
C21_UnreadableAddsNoSize ==
    /\ \A ri \in 1..Len(dirEntryIndices) :
         Computed(ri) =>
             LET d == DirOf(ri)
                 readable == { q \in Reached(d) : ~Unreadable(d, q) /\ EntryAt(d, q).typ # "dir" }
                 files == { q \in Reached(d) : EntryAt(d, q).typ # "dir" }
                 dirs == { q \in Reached(d) : EntryAt(d, q).typ = "dir" }
             IN  /\ results[ri].size = SumOver(readable, [q \in readable |-> EntryAt(d, q).size])
                 /\ results[ri].childFiles = Cardinality(files)
                 /\ results[ri].childDirs = Cardinality(dirs)
    /\ (pc = "returned" /\ ~RootUnusable) => Succeeded

\* C21 witness: a goroutine has aggregated the directory that holds a file of
\* 1 byte, a directory that cannot be listed and a file that cannot be
\* stat'd: 1 byte, 2 files, 1 directory.
C21_Witness ==
    \E ri \in 1..Len(dirEntryIndices) :
        /\ Computed(ri)
        /\ DirOf(ri) = BlockedDir
        /\ results[ri].size = 1 /\ results[ri].childFiles = 2 /\ results[ri].childDirs = 1

\* what a scan of directory d that runs one goroutine after the other, in
\* listing order, returns: the directories with their aggregates, then the
\* files, with percentages, sorted
SequentialScan(root) ==
    LET dirs == DirsOf(root.dir.list)
        files == FilesOf(root.dir.list)
        des == [i \in 1..Len(dirs) |->
                   LET agg == dirSizeRecursive(dirs[i].dir)
                   IN  [DirFileEntry(dirs[i]) EXCEPT !.Size = agg.size,
                                                     !.ChildFiles = agg.files,
                                                     !.ChildDirs = agg.dirs]]
        fes == [i \in 1..Len(files) |-> FileStat(files[i])]
        total == SumSizes(des) + SumSizes(fes)
    IN  scanResultMsg(root.path, SortBySize(WithPercentages(des \o fes, total)),
                      total, Len(files), Len(dirs), root.modTime)

\* C22: the result of a scan is determined by the directory scanned: whatever
\* the order in which the subdirectory goroutines and the file-stat goroutines
\* get their slots and finish, the scan returns the entries, in the order, and
\* the totals that a scan without concurrency returns, so that two scans of an
\* unchanged directory return equal results.
C22_ResultIndependentOfSchedule ==
    Succeeded => msgs[1].result = SequentialScan(fs)

\* C22 witness: on two processors the scan of three subdirectories of
\* different sizes, whose goroutines finish in any order, has returned them
\* with their own sizes.
C22_Witness ==
    /\ Succeeded
    /\ numCPU = 2
    /\ Len(wpc) = 3
    /\ DirOf(1) = DeepDir /\ DirOf(3) = BlockedDir
    /\ Returned[1].Name = NameAt(1) /\ Returned[1].Size = 8
    /\ Returned[3].Name = NameAt(3) /\ Returned[3].Size = 1

\* the message a full scan of the directory returns
FullScan(root) ==
    IF ListErr(root) # "nil" THEN scanErrorMsg(ListErr(root))
    ELSE scanResult(SequentialScan(root))

\* the path can be stat'd and the directory has the modification time of the
\* cached result
StillAsCached == fs.stat /\ fs.modTime.wall = cachedModTime.wall

\* C23: a smart refresh returns scanUpToDateMsg if and only if the path can be
\* stat'd and its modification time is the one of the cached result; it then
\* returns from its first step, before anything of the directory was read; in
\* every other case it returns what a full scan of the path returns.
C23_RefreshUnchangedIff ==
    /\ [](pc = "returned" =>
            /\ Len(msgs) = 1
            /\ msgs[1].type = "scanUpToDateMsg" <=> StillAsCached
            /\ StillAsCached => /\ msgs[1] = scanUpToDateMsg(fs.path)
                                /\ entries = <<>> /\ fileEntries = <<>>
                                /\ results = <<>> /\ wpc = <<>> /\ fw = NoWorkers
            /\ ~StillAsCached => msgs[1] = FullScan(fs))
    /\ [][(msgs' # msgs /\ msgs'[1].type = "scanUpToDateMsg") => pc = "refresh"]_<<vars, scanVars, otherVars>>
    /\ [](pc \notin {"refresh", "returned"} => ~StillAsCached)

\* C23 witness: the refresh of a directory with two children, which has the
\* modification time of the cached result, has returned scanUpToDateMsg.
C23_Witness ==
    /\ pc = "returned"
    /\ Len(fs.dir.list) = 2 /\ fs.dir.ok
    /\ cachedModTime = Mtime
    /\ msgs = <<scanUpToDateMsg("/a")>>

(* ======================= properties of line counting ================== *)

\* countLines has returned
LinesReturned == lpc = "returned"

\* the path is a regular file of at least one byte and at most maxSize bytes
\* that was opened
ReadAsFile ==
    /\ lfile.stat /\ ~lfile.isDir /\ lfile.open
    /\ Size(lfile.data) >= 1 /\ Size(lfile.data) <= maxSize

\* the number of bytes b among the first n bytes of the file
Among(b, n) == Count(Slice(lfile.data, 0, n), b)

\* the prefix looked at for a zero byte: the first 512 bytes of the first
\* chunk, or the chunk when it is shorter
ProbedLen == minInt(chunks[1], probeLen)

RECURSIVE SumSeq(_)
SumSeq(ns) == IF ns = <<>> THEN 0 ELSE ns[1] + SumSeq(Tail(ns))

\* C24: for a regular file of 1..maxSize bytes without a zero byte in the
\* probed prefix countLines returns (n, false, nil), n being the number of
\* newline bytes of the whole file, in however many chunks of whatever length
\* the file was read.
C24_CountsAllNewlines ==
    (LinesReturned /\ ReadAsFile /\ Among("nul", ProbedLen) = 0) =>
        /\ lret = <<Among("nl", Size(lfile.data)), FALSE, "nil">>
        /\ SumSeq(chunks) = Size(lfile.data)

\* C24 witness: a file of a buffer and 512 bytes, all newlines, was read in
\* chunks of one byte, of 511 bytes and of a buffer, and counted in full.
C24_Witness ==
    /\ LinesReturned
    /\ lfile = RegularWith(<<Run("nl", bufLen), Run("nl", probeLen)>>, TRUE)
    /\ maxSize = bufLen + probeLen
    /\ chunks = <<1, probeLen - 1, bufLen>>
    /\ lret = <<bufLen + probeLen, FALSE, "nil">>

\* C25: countLines returns (0, true, nil), and reads no further, exactly when
\* a zero byte is among the first 512 bytes of the first chunk read (the whole
\* chunk when it is shorter); a zero byte behind that prefix is not seen and
\* the file is counted as text.
C25_BinaryIffNulInProbe ==
    (LinesReturned /\ ReadAsFile) =>
        /\ lret = <<0, TRUE, "nil">> <=> Among("nul", ProbedLen) > 0
        /\ Among("nul", ProbedLen) > 0 => Len(chunks) = 1
        /\ Among("nul", ProbedLen) = 0 =>
              /\ lret[2] = FALSE
              /\ lret[1] = Among("nl", Size(lfile.data))

\* C25 witness: a file of 512 other bytes, a zero byte and a newline, read in
\* one chunk, was counted as text with one line.
C25_Witness ==
    /\ LinesReturned
    /\ lfile = RegularWith(<<Run("x", probeLen), Run("nul", 1), Run("nl", 1)>>, TRUE)
    /\ chunks = <<probeLen + 2>>
    /\ lret = <<1, FALSE, "nil">>

\* C26: countLines returns (0, false, nil) for a file larger than maxSize,
\* which it neither opens nor reads, and for an empty file and a directory,
\* and (0, false, err) with the error of os.Stat for a path that cannot be
\* stat'd.
C26_EarlyReturns ==
    LinesReturned =>
        /\ (lfile.stat /\ ~lfile.isDir /\ Size(lfile.data) > maxSize) =>
              lret = <<0, FALSE, "nil">> /\ ~opened /\ chunks = <<>>
        /\ (lfile.stat /\ (lfile.isDir \/ Size(lfile.data) = 0)) =>
              lret = <<0, FALSE, "nil">>
        /\ ~lfile.stat => lret = <<0, FALSE, "stat">>

\* C26 witness: countLines has returned for a file of newlines of three
\* buffers, with maxSize a buffer and 512 bytes.
C26_Witness ==
    /\ LinesReturned
    /\ lfile = RegularWith(<<Run("nl", bufLen), Run("nl", bufLen), Run("nl", bufLen)>>, TRUE)
    /\ maxSize = bufLen + probeLen
    /\ lret = <<0, FALSE, "nil">>
    /\ ~opened

(* ==================== properties of batch line counting =============== *)

\* the goroutines that hold a slot of the semaphore
BatchHolders ==
    { i \in 1..Len(bw) : bw[i] \in {"holding", "counted", "locked", "written", "stored"} }

\* the entries that are neither directories nor binary by their extension
Countable == { i \in 1..Len(bentries) : ~bentries[i].IsDir /\ ~bentries[i].IsBinary }

\* a goroutine is started for the countable entries alone, at most
\* runtime.NumCPU() goroutines hold a slot, and the command returns one
\* message when every goroutine it started has finished
BatchPoolAndBarrier ==
    /\ \A i \in 1..Len(bentries) : i \notin Countable => bw[i] = "none"
    /\ Cardinality(BatchHolders) <= numCPU
    /\ bpc = "returned" => /\ \A i \in Countable : bw[i] = "done"
                           /\ bsem = 0 /\ bwg = 0 /\ mu = {}
                           /\ Len(bmsgs) = 1
                           /\ bmsgs[1].type = "batchLineCountMsg"
    /\ bpc # "returned" => bmsgs = <<>>

\* the returned map has a key for each entry of is, with its line count
BatchMapOver(is) ==
    LET m == bmsgs[1].Counts
    IN  /\ DOMAIN m = { bentries[i].Name : i \in is }
        /\ \A i \in is : m[bentries[i].Name] = bentries[i].lines

\* C27 as stated: directories and binary entries are skipped, at most
\* runtime.NumCPU() goroutines count at once, the command returns after all of
\* them have finished, and the returned map holds the line count of every
\* entry that is neither a directory nor binary, under its name.
C27_BatchHoldsEveryCount ==
    /\ BatchPoolAndBarrier
    /\ bpc = "returned" => BatchMapOver(Countable)

\* C27 amended: .. the returned map holds the line count of every such entry
\* whose content countLines does not find binary and whose count is not 0;
\* the other entries have no key.
C27_BatchHoldsPositiveCounts ==
    /\ BatchPoolAndBarrier
    /\ bpc = "returned" =>
          BatchMapOver({ i \in Countable : ~bentries[i].isBin /\ bentries[i].lines > 0 })

\* C27 witness: two processors; of three entries the first and the third are
\* text files of two lines, the second has no newline: the map returned has
\* the two keys.
C27_Witness ==
    /\ bpc = "returned"
    /\ numCPU = 2
    /\ Len(bentries) = 3 /\ Countable = {1, 2, 3}
    /\ bentries[2].lines = 0 /\ ~bentries[2].isBin
    /\ bmsgs[1].Counts = (NameAt(1) :> 2) @@ (NameAt(3) :> 2)

(* ----------------------------- C28 .. C30 ------------------------------ *)

\* what the user sees of a directory
Displayed == <<mpath, mentries, mfiltered, mtotalSize, mtotalFiles, mtotalDirs,
               mcursor>>

\* C28: a scan result that arrives for a path other than the one displayed
\* (the user went elsewhere while the scan ran) leaves the displayed path,
\* entries, totals and cursor as they are; it may only be cached
C28_LateResultLeavesDisplay ==
    [][\A c \in cmds : ScanResult(c) /\ c.path # mpath => UNCHANGED Displayed]_<<vars, scanVars, otherVars>>

\* the scan or refresh that was given ScanProgress i has returned
Finished(i) == ~\E c \in cmds : c.prog = i

\* C29: the three counters of a ScanProgress only ever increase, and no
\* increment is lost: once the scan has finished, each counter is the sum of
\* the increments its workers made, whatever else happened in between
C29_CountersGrowAndAddUp ==
    /\ [][\A i \in DOMAIN progs :
            /\ progs'[i].Files >= progs[i].Files
            /\ progs'[i].Dirs >= progs[i].Dirs
            /\ progs'[i].Size >= progs[i].Size]_<<vars, scanVars, otherVars>>
    /\ [](\A i \in DOMAIN progs : Finished(i) => progs[i] = added[i])

\* two scans ran side by side, both counted several files and directories,
\* and both have finished
C29_Witness ==
    /\ Len(progs) = 2 /\ Finished(1) /\ Finished(2)
    /\ \A i \in 1..2 : added[i].Files = 2 /\ added[i].Dirs = 2 /\ added[i].Size = 2

\* every count of p is one that q has reached
Within(p, q) == p.Files <= q.Files /\ p.Dirs <= q.Dirs /\ p.Size <= q.Size

\* C30: a ScanProgress is made new, all counters zero, for each scan that is
\* started, the Model lets go of it when that scan completes (with a result,
\* an error or an up-to-date report), and the counts shown while loading are
\* counts of the scan that is awaited, never those of an earlier one
C30_ReporterPerScan ==
    /\ [][Len(progs') > Len(progs) =>
            /\ progs' = Append(progs, ZeroProg)
            /\ scanProg' = Len(progs')]_<<vars, scanVars, otherVars>>
    /\ [](scanProg # 0 => ~Finished(scanProg))
    /\ [](ShownProgress # ZeroProg =>
            scanProg # 0 /\ Within(ShownProgress, progs[scanProg]))

(* ----------------------------- C31 .. C40 ------------------------------ *)

RECURSIVE Subsequence(_, _)
\* the bytes of pattern occur in name in this order, case ignored
Subsequence(name, pattern) ==
    IF pattern = <<>> THEN TRUE
    ELSE IF name = <<>> THEN FALSE
    ELSE IF Lower(name[1]) = Lower(pattern[1])
         THEN Subsequence(Tail(name), Tail(pattern))
         ELSE Subsequence(Tail(name), pattern)

\* C31: fuzzyMatch(name, pattern) is true exactly when the characters of
\* pattern occur in name in the same order, adjacent or not, ASCII case
\* ignored; the empty pattern matches every name and a pattern that is not
\* empty never matches the empty name
C31_MatchesSubsequences ==
    fret # <<>> =>
        /\ fret[1] = Subsequence(fname, fpattern)
        /\ (fpattern = <<>> => fret[1] = TRUE)
        /\ (fname = <<>> /\ fpattern # <<>> => fret[1] = FALSE)

\* the total is the sum of the sizes shown and every percentage is that of
\* its size in the total, 0 when the total is 0
TotalsConsistent(es, total) ==
    /\ total = SumSizes(es)
    /\ \A i \in 1..Len(es) :
          es[i].Percentage = IF total > 0 THEN Percent(es[i].Size, total) ELSE 0

\* C32: once a trash result without error is handled, the entry is not among
\* the displayed entries, the displayed total is the sum of the sizes of the
\* entries left, their percentages are those of their sizes in that total,
\* and the cache has no record for the displayed directory, wherever the user
\* went in the meantime
C32_TrashKeepsTotals ==
    [][\A c \in cmds : TrashResult(c) =>
          /\ \A i \in 1..Len(mentries') : mentries'[i].Name # c.name
          /\ TotalsConsistent(mentries', mtotalSize')
          /\ mpath' \notin items']_<<vars, scanVars, otherVars>>

\* the file block has run: the scan is between it and the percentages
FilesDone == pc = "finish"

\* what the sequential loop appends for the files of the listing
SequentialStats == [i \in 1..Len(fileEntries) |-> FileStat(fileEntries[i])]

C33_WitnessSequential ==
    /\ FilesDone
    /\ Len(fileEntries) = 20 /\ FwSpawned = 0
    /\ totalFiles = 20 /\ entries[21].Size = 0

\* C34: the cursor is 0 when nothing is listed and the position of a listed
\* entry otherwise, in every state that messages and keys lead to.
C34_CursorInRange ==
    IF Len(mfiltered) = 0 THEN mcursor = 0
    ELSE 0 <= mcursor /\ mcursor < Len(mfiltered)

\* C34 witness: the only file of /a/b was moved to the trash while it was
\* listed: nothing is listed and the cursor is 0.
C34_Witness ==
    /\ mpath = "/a/b" /\ entriesOf = "/a/b"
    /\ <<"/a/b", "file.go">> \in gone
    /\ mentries = <<>> /\ mfiltered = <<>>
    /\ mcursor = 0

\* the names of the entries es, in order
NamesOf(es) == [i \in 1..Len(es) |-> es[i].Name]

\* C35: when the Model is not loading and shows no error, the entries and
\* the totals displayed are those of a scan result or of a cache record of
\* the path displayed: neither an up-to-date report nor a result for another
\* path leaves the entries of one directory under the path of another.
C35_DisplayBelongsToPath ==
    ~mloading /\ merr = "nil" =>
        /\ entriesOf = mpath
        /\ NamesOf(mentries) = NamesOf(ScanOf(mpath).entries)
        /\ mtotalSize = ScanOf(mpath).totalSize
        /\ mtotalFiles = ScanOf(mpath).totalFiles
        /\ mtotalDirs = ScanOf(mpath).totalDirs

\* every line count stored in the entries es is the one of the file of that
\* name in directory dir
CountsFrom(es, dir) ==
    \A i \in 1..Len(es) :
        es[i].LineCount > 0 => es[i].LineCount = LinesAt(dir, es[i].Name)

\* C36: a line count stored in the entries displayed or in a cache record,
\* by a single count or by a batch, was computed from the file of that name
\* in that same directory, whatever the order in which counts, results and
\* keys arrive.
C36_LineCountOfSameDirectory ==
    /\ CountsFrom(mentries, entriesOf)
    /\ \A i \in 1..Len(ll) : CountsFrom(ll[i].value.entries, ll[i].key)

\* the scans and refreshes that run
Scanning == { c \in cmds : c.kind \in {"scan", "refresh"} }

\* C37: loading is set only together with a scan or refresh command, each
\* command delivers one message (result, error or up-to-date report) and the
\* handler of each sets loading false; so, messages being delivered, loading
\* never stays true forever.
C37_LoadingEnds ==
    /\ [](mloading => Scanning # {})
    /\ [][/\ (mloading' /\ scanProg' # scanProg => Scanning' \ Scanning # {})
          /\ \A c \in Scanning :
                Deliver(c) => ~mloading' /\ Scanning' = Scanning \ {c}]_<<vars, scanVars, otherVars>>
    /\ []<>(~mloading)

\* C37 witness: three scans or refreshes were started, each has delivered
\* its message, and the Model, two directories down, is not loading.
C37_Witness ==
    /\ Len(progs) = 3 /\ Scanning = {}
    /\ ~mloading
    /\ mpath = "/a/b" /\ entriesOf = "/a/b"

\* C38: every record of the cache of the running Model is stored under the
\* path its value carries.
C38_KeyIsValuePath ==
    \A i \in 1..Len(ll) : ll[i].key = ll[i].value.path

\* C38 witness: two directories are cached, the record of /a at the front
\* after the line count of its file was written back into it.
C38_Witness ==
    /\ KeySeq(ll) = <<"/a", "/a/b">>
    /\ ll[1].value.entries[1].Name = "file.go"
    /\ ll[1].value.entries[1].LineCount = 2

\* C39: when the cache file holds more records that are not stale than the
\* loading cache has room for, Load leaves the cache with exactly as many
\* records as it has room for, the most recently used records of the file in
\* their order; the records of the file that are not kept are its least
\* recently used ones.
C39_LoadKeepsMostRecent ==
    [][(LoadReads /\ disk.Version = cacheVersion /\ Len(FreshPaths) > maxEntries)
         => /\ Len(ll') = maxEntries
            /\ KeySeq(ll') = SubSeq(FreshPaths, 1, maxEntries)
            /\ items' = { FreshPaths[i] : i \in 1..maxEntries }
            /\ \A i \in (maxEntries + 1)..Len(FreshPaths) :
                  FreshPaths[i] \notin items']_vars

\* C39 witness: a cache with room for one record, which held a record, has
\* loaded a file of two fresh records and holds the first record of the file.
C39_Witness ==
    /\ op = Op("Load", "", "nonempty")
    /\ maxEntries = 1
    /\ disk.kind = "file" /\ disk.Version = cacheVersion
    /\ Len(FreshPaths) = 2
    /\ KeySeq(ll) = <<FreshPaths[1]>>

\* C40: the age the 24-hour filter tests runs from the last Save: Save stamps
\* every record it writes with the time of the Save, whenever the record was
\* scanned or saved before, and Load keeps a record by that stamp alone; so a
\* record that is loaded and saved again is loaded a day later although its
\* directory was never scanned again.
C40_AgeSinceLastSave ==
    /\ [][(op'.name = "Save" /\ op'.how = "ok")
            => \A i \in 1..Len(disk'.Items) :
                 /\ now <= disk'.Items[i].CachedAt.wall
                 /\ disk'.Items[i].CachedAt.wall <= now']_vars
    /\ [][(LoadReads /\ disk.Version = cacheVersion)
            => \A i \in 1..Min(Len(FreshPaths), maxEntries) :
                 FreshPaths[i] \in items']_vars

\* C40 witness: two days after the only scans, a Load has brought back a
\* record that a Save of the day before had stamped.
C40_Witness ==
    /\ now = cacheMaxAge + 1
    /\ op = Op("Load", "", "empty")
    /\ disk.kind = "file" /\ disk.Version = cacheVersion
    /\ Len(disk.Items) > 0
    /\ disk.Items[1].CachedAt.wall = cacheMaxAge
    /\ ll # <<>> /\ ll[1].key = disk.Items[1].Path

====
